---- MODULE Spec2Model ----
(***************************************************************************)
(* Call orchestration state machine of personal-agent-webhook (v3.6.1,     *)
(* src/unnamed/part_001; src/index.js is the same machine without the      *)
(* outbound-contact and transcription flows).                              *)
(*                                                                         *)
(* Node runs one handler at a time until it reaches an `await`; a handler  *)
(* is therefore a chain of atomic segments.  The first segment runs when   *)
(* the webhook is dispatched, the following ones when the awaited remote   *)
(* call returns.  The suspended handlers are kept in the bag `handlers`.   *)
(***************************************************************************)
EXTENDS Integers, Sequences, FiniteSets, Bags, TLC

VARIABLES
  pendingCalls,          \* Map leg id -> {from, to, timestamp}
  pendingOutboundCalls,  \* Map leg id -> {from, to, timestamp}
  activeConferences,     \* Map anchor leg id -> conversation record
  callHistory,           \* array of call-history records, newest first
  handlers,              \* bag of suspended handlers (one record per await)
  requests,              \* bag of the remote requests issued so far
  nextConf,              \* index of the next conference id the provider assigns
  eventsLeft,            \* number of webhooks still to be dispatched
  now,                   \* clock, in units longer than the callback TTL
  hasApiKey,             \* process.env.TELNYX_API_KEY is set
  liveTranscripts,       \* Map conference id -> array of transcript entries
  events_stored,         \* events.length: the webhooks kept in the diagnostic buffer
  hungUp,                \* legs whose call.hangup was the last event received for them
  last                   \* the handler segment that ran last (history variable)

vars == <<pendingCalls, pendingOutboundCalls, activeConferences, callHistory,
          liveTranscripts, handlers, requests, nextConf, eventsLeft, now, hasApiKey,
          events_stored, hungUp, last>>

(***************************************************************************)
(* Bounds of the model.                                                    *)
(***************************************************************************)
\* Webhooks dispatched in the three-leg specification.
MaxEvents == 3

\* Webhooks dispatched in the two-leg inbound specification.
MaxRaceEvents == 4

\* Webhooks dispatched after the first conversation is set up.
MaxBridgedEvents == 4

\* Webhooks dispatched while the provider echoes the tokens of the AI dials.
MaxEchoEvents == 3

\* Webhooks dispatched when call.answered carries no usable token.
MaxFallThroughEvents == 3

\* Webhooks dispatched when every payload is allowed.
MaxAnyEvents == 3

\* Clock ticks, each longer than the callback TTL.
MaxTime == 1

(***************************************************************************)
(* Values.                                                                 *)
(***************************************************************************)
Legs == {"L1", "L2", "L3"}

Null == "null"

Undefined == "undefined"

AgentNumber == "+18635008639"

OtherNumber == "+15550100"

SipUri == "sip:18635008639@sip.rtc.elevenlabs.io"

AGENT_PHONE_NUMBERS == {AgentNumber}

\* The conference ids the provider hands out, in the order it assigns them.
ConfNames == <<"C1", "C2", "C3", "C4", "C5", "C6", "C7", "C8">>

IssuedConfs == {ConfNames[i] : i \in 1..(nextConf - 1)}

\* A variant of isSipCall that takes no destination for a SIP address.
isSipCall_Never(to) == FALSE

\* to.includes("sip.rtc.elevenlabs.io") || to.startsWith("sip:")
isSipCall(to) == to \in {SipUri}

(***************************************************************************)
(* JS Map operations on functions whose domain is the key set.             *)
(***************************************************************************)
MapSet(m, k, v) == [x \in (DOMAIN m) \cup {k} |-> IF x = k THEN v ELSE m[x]]

MapDelete(m, k) == [x \in (DOMAIN m) \ {k} |-> m[x]]

MapHas(m, k) == k \in DOMAIN m

EmptyMap == [x \in {} |-> Null]

(***************************************************************************)
(* Client-state codec.  A JSON object is a function from keys to values;   *)
(* its wire form (JSON text, base64) is the sequence of its key/value      *)
(* pairs in insertion order.  The empty sequence is the absent token; a    *)
(* pair with key "!" stands for bytes that are not JSON.                   *)
(***************************************************************************)
NoClientState == <<>>

Garbage == << <<"!", "!">> >>

\* JSON.stringify(obj): the pairs in insertion order; a key whose value is
\* undefined is left out.
Stringify(pairs) ==
  LET Defined(pair) == pair[2] # Undefined
  IN  SelectSeq(pairs, Defined)

\* A variant of EncodeAILeg that stores the two values under each other's key.
EncodeAILeg_Swapped(conferenceId, callerFrom) ==
  Stringify(<< <<"type", "ai_leg">>, <<"conferenceId", callerFrom>>,
               <<"callerFrom", conferenceId>> >>)

\* Buffer.from(JSON.stringify({type, conferenceId, callerFrom})).toString("base64")
EncodeAILeg(conferenceId, callerFrom) ==
  Stringify(<< <<"type", "ai_leg">>, <<"conferenceId", conferenceId>>,
               <<"callerFrom", callerFrom>> >>)

\* JSON.parse(Buffer.from(b64, "base64").toString()) succeeds
Parses(b64) == \A i \in DOMAIN b64 : b64[i][1] # "!"

\* The parsed object: the last pair of a key gives its value.
Decode(b64) ==
  [k \in {b64[i][1] : i \in DOMAIN b64} |->
     LET final == CHOOSE i \in DOMAIN b64 :
                    /\ b64[i][1] = k
                    /\ \A j \in DOMAIN b64 : b64[j][1] = k => j <= i
     IN  b64[final][2]]

\* obj.key, undefined when the key is missing
Get(obj, k) == IF k \in DOMAIN obj THEN obj[k] ELSE Undefined

\* A variant of TokenType that takes any token with a type for an AI-leg token.
TokenType_NoKindCheck(b64) ==
  IF b64 = NoClientState \/ ~Parses(b64) THEN "none"
  ELSE IF Get(Decode(b64), "type") \in {"conference_join", "ai_outbound"}
       THEN Get(Decode(b64), "type")
       ELSE IF Get(Decode(b64), "type") # Undefined THEN "ai_leg" ELSE "none"

\* The kind of token the answered handler recognises, "none" when it falls through.
TokenType(b64) ==
  IF b64 = NoClientState \/ ~Parses(b64) THEN "none"
  ELSE IF Get(Decode(b64), "type") \in {"ai_leg", "conference_join", "ai_outbound"}
       THEN Get(Decode(b64), "type")
       ELSE "none"

(***************************************************************************)
(* Records.                                                                *)
(***************************************************************************)
\* What ran last: the handler segment, its leg and flow, the conference it
\* names (Null when none), for a returning remote call its outcome, and for
\* a dispatched call.answered the client_state of its payload.
Step(step, leg, flow, conf, ok) ==
  [step |-> step, leg |-> leg, flow |-> flow, conf |-> conf, ok |-> ok,
   token |-> NoClientState]

Handler(pc, flow, leg, conf, from, to) ==
  [pc |-> pc, flow |-> flow, leg |-> leg, conf |-> conf, from |-> from, to |-> to]

Request(op, leg, conf, name, token) ==
  [op |-> op, leg |-> leg, conf |-> conf, name |-> name, token |-> token]

\* A variant of Send that issues the request whether or not the key is configured.
Send_Always(bag, r) == bag (+) SetToBag({r})

\* A remote-call wrapper sends its request only when the API key is configured.
Send(bag, r) == IF hasApiKey THEN bag (+) SetToBag({r}) ELSE bag

\* A notification to the supervisory system is always attempted.
Notify(bag, r) == bag (+) SetToBag({r})

\* The number of requests issued so far that satisfy P.
CountWhere(P(_)) ==
  LET RECURSIVE Sum(_)
      Sum(S) == IF S = {} THEN 0
                ELSE LET r == CHOOSE x \in S : TRUE
                     IN  CopiesIn(r, requests) + Sum(S \ {r})
  IN  Sum({r \in BagToSet(requests) : P(r)})

Count(op, leg) ==
  LET P(r) == r.op = op /\ r.leg = leg
  IN  CountWhere(P)

Conversation(conferenceId, callerFrom, leg, agentPhoneNumber, isOutbound) ==
  [conferenceId |-> conferenceId, callerFrom |-> callerFrom,
   callerCallControlId |-> leg, agentPhoneNumber |-> agentPhoneNumber,
   aiCallControlId |-> Null, aiConnected |-> FALSE,
   userJoined |-> FALSE, userCallControlId |-> Null, isOutbound |-> isOutbound]

MAX_CALL_HISTORY == 200

\* callHistory.unshift(entry); if (callHistory.length > MAX_CALL_HISTORY) callHistory.pop()
Unshift(h, entry) ==
  LET added == <<entry>> \o h
  IN  IF Len(added) > MAX_CALL_HISTORY THEN SubSeq(added, 1, Len(added) - 1) ELSE added

HistoryEntry(leg, direction, status, conferenceId) ==
  [callControlId |-> leg, direction |-> direction, status |-> status,
   conferenceId |-> conferenceId, aiCallControlId |-> Null, ended |-> FALSE]

\* callHistory.find(pred): the index of the first of the matching entries,
\* 0 when none matches
FindIndex(matching) ==
  IF matching = {} THEN 0
  ELSE CHOOSE i \in matching : \A j \in matching : i <= j

\* for (... of activeConferences.entries()) if (conf.conferenceId === id) {...; break}
\* Conference ids are assigned fresh, so at most one entry matches.
FindByConferenceId(id) ==
  {k \in DOMAIN activeConferences : activeConferences[k].conferenceId = id}

(***************************************************************************)
(* Initial state: empty tables; the API key is configured or not for the   *)
(* whole run.                                                              *)
(***************************************************************************)
StartWith(n, key) ==
  /\ pendingCalls = EmptyMap
  /\ pendingOutboundCalls = EmptyMap
  /\ activeConferences = EmptyMap
  /\ callHistory = <<>>
  /\ liveTranscripts = EmptyMap
  /\ handlers = EmptyBag
  /\ requests = EmptyBag
  /\ nextConf = 1
  /\ eventsLeft = n
  /\ events_stored = 0
  /\ now = 0
  /\ hasApiKey = key
  /\ hungUp = {}
  /\ last = Step("init", Null, Null, Null, TRUE)

\* The API key is configured.
Start(n) == StartWith(n, TRUE)

Init == Start(MaxAnyEvents)

InitCore == Start(MaxEvents)

\* The clock moves on by more than the callback TTL and one sweep period.
AdvanceTime ==
  /\ now < MaxTime
  /\ now' = now + 1
  /\ last' = Step("tick", Null, Null, Null, TRUE)
  /\ UNCHANGED <<pendingCalls, pendingOutboundCalls, activeConferences, callHistory,
                 liveTranscripts, handlers, requests, nextConf, eventsLeft, events_stored, hasApiKey,
                 hungUp>>

\* const MAX_EVENTS = 100
MAX_EVENTS == 100

\* A variant of Recorded in which the webhook is not kept.
Recorded_Dropped == events_stored

\* events.unshift(event); if (events.length > MAX_EVENTS) events.pop()
\* Of the buffer only its length is kept.
Recorded ==
  IF events_stored + 1 > MAX_EVENTS THEN MAX_EVENTS ELSE events_stored + 1

\* Without the API key the remote-call wrappers return without any I/O:
\* only microtasks separate the segments of a handler, so it runs to its end
\* before the next request is received.  The notification fetch and the
\* transcript timer are real I/O in either case.
Receivable ==
  \/ hasApiKey
  \/ \A h \in BagToSet(handlers) : h.pc \in {"awaitNotify", "transcriptTimer"}

Dispatch(l, step) ==
  /\ Receivable
  /\ eventsLeft > 0
  /\ eventsLeft' = eventsLeft - 1
  /\ events_stored' = Recorded
  /\ hungUp' = IF step = "hangup" THEN hungUp \cup {l} ELSE hungUp \ {l}

(***************************************************************************)
(* handleCallInitiated, up to `await answerCall(...)`.                     *)
(***************************************************************************)
handleCallInitiated(l, direction, to, from) ==
  LET tracked == direction = "outgoing" /\ from \in AGENT_PHONE_NUMBERS /\ ~isSipCall(to)
      inbound == direction \in {"inbound", "incoming"} /\ to \in AGENT_PHONE_NUMBERS
      entry   == [from |-> from, to |-> to, timestamp |-> now]
  IN  /\ Dispatch(l, "initiated")
      /\ pendingOutboundCalls' =
           IF tracked THEN MapSet(pendingOutboundCalls, l, entry) ELSE pendingOutboundCalls
      /\ IF inbound
         THEN /\ pendingCalls' = MapSet(pendingCalls, l, entry)
              /\ callHistory' = Unshift(callHistory, HistoryEntry(l, "inbound", "initiated", Null))
              /\ requests' = Send(requests, Request("answer", l, Null, Null, NoClientState))
              /\ handlers' = handlers (+) SetToBag({Handler("awaitAnswer", "initiated", l, Null, from, to)})
         ELSE UNCHANGED <<pendingCalls, callHistory, requests, handlers>>
      /\ UNCHANGED <<activeConferences, liveTranscripts, nextConf, now, hasApiKey>>

(***************************************************************************)
(* handleCallInitiated after `await answerCall(...)`: roll back on failure.*)
(***************************************************************************)
\* A variant of PendingAfterAnswer that keeps the entry when the answer failed.
PendingAfterAnswer_NoRollback(l, success) == pendingCalls

\* if (!answerResult.success) pendingCalls.delete(callControlId)
PendingAfterAnswer(l, success) ==
  IF success THEN pendingCalls ELSE MapDelete(pendingCalls, l)

AnswerReturn(h, success) ==
  /\ h.pc = "awaitAnswer"
  /\ handlers' = handlers (-) SetToBag({h})
  /\ pendingCalls' = PendingAfterAnswer(h.leg, success)
  /\ UNCHANGED <<pendingOutboundCalls, activeConferences, callHistory, liveTranscripts,
                 requests, nextConf, eventsLeft, events_stored, now, hasApiKey, hungUp>>

(***************************************************************************)
(* handleCallAnswered, up to its first await.  Dispatch by evidence: the   *)
(* token, then the tracked outbound attempt, then the Pending Call.        *)
(***************************************************************************)
\* `call_${Date.now()}` in the inbound flow, `outbound_${Date.now()}` otherwise
ConferenceName(flow) == IF flow = "inbound" THEN "call" ELSE "outbound"

\* A variant of TakePending that reads the entry and leaves it in the table.
TakePending_NoDelete(m, l) == m

\* pendingCalls.get(id) ... pendingCalls.delete(id)
TakePending(m, l) == MapDelete(m, l)

\* A variant of AnsweredFlow in which a token that does not parse ends the handler.
AnsweredFlow_ThrowOnMalformed(l, b64) ==
  IF b64 # NoClientState /\ ~Parses(b64) THEN "no_match"
  ELSE IF TokenType(b64) # "none" THEN TokenType(b64)
  ELSE IF MapHas(pendingOutboundCalls, l) THEN "fallback"
  ELSE IF MapHas(pendingCalls, l) THEN "inbound"
  ELSE "no_match"

\* The flow the answered handler takes for leg l and token b64.
AnsweredFlow(l, b64) ==
  IF TokenType(b64) # "none" THEN TokenType(b64)
  ELSE IF MapHas(pendingOutboundCalls, l) THEN "fallback"
  ELSE IF MapHas(pendingCalls, l) THEN "inbound"
  ELSE "no_match"

\* A variant of PendingAfterAnswered that deletes the entry before the flow is chosen.
PendingAfterAnswered_AnyFlow(flow, l) == MapDelete(pendingCalls, l)

\* Only the inbound flow touches the Pending Call table.
PendingAfterAnswered(flow, l) ==
  IF flow = "inbound" THEN TakePending(pendingCalls, l) ELSE pendingCalls

handleCallAnswered(l, b64, from) ==
  LET flow == AnsweredFlow(l, b64)
      cs   == Decode(b64)
  IN  /\ Dispatch(l, "answered")
      /\ CASE flow = "ai_leg" ->
                /\ requests' = Send(requests,
                     Request("joinConference", l, Get(cs, "conferenceId"), Null, NoClientState))
                /\ handlers' = handlers (+) SetToBag({
                     Handler("awaitJoin", flow, l, Get(cs, "conferenceId"), Null, Null)})
                /\ UNCHANGED pendingOutboundCalls
           [] flow = "conference_join" ->
                /\ requests' = Send(requests,
                     Request("joinConference", l, Get(cs, "conference_id"), Null, NoClientState))
                /\ handlers' = handlers (+) SetToBag({
                     Handler("awaitJoin", flow, l, Get(cs, "conference_id"),
                             Get(cs, "original_call_id"), Null)})
                /\ UNCHANGED pendingOutboundCalls
           [] flow = "ai_outbound" ->
                /\ requests' = Send(requests, Request("createConference", l, Null, ConferenceName(flow), NoClientState))
                /\ handlers' = handlers (+) SetToBag({
                     Handler("awaitCreate", flow, l, Null, from, Get(cs, "to_number"))})
                /\ UNCHANGED pendingOutboundCalls
           [] flow = "fallback" ->
                /\ pendingOutboundCalls' = MapDelete(pendingOutboundCalls, l)
                /\ requests' = Send(requests, Request("createConference", l, Null, ConferenceName(flow), NoClientState))
                /\ handlers' = handlers (+) SetToBag({
                     Handler("awaitCreate", flow, l, Null,
                             pendingOutboundCalls[l].from, pendingOutboundCalls[l].to)})
           [] flow = "inbound" ->
                /\ requests' = Send(requests, Request("createConference", l, Null, ConferenceName(flow), NoClientState))
                /\ handlers' = handlers (+) SetToBag({
                     Handler("awaitCreate", flow, l, Null, pendingCalls[l].from, pendingCalls[l].to)})
                /\ UNCHANGED pendingOutboundCalls
           [] OTHER ->
                UNCHANGED <<pendingOutboundCalls, requests, handlers>>
      /\ pendingCalls' = PendingAfterAnswered(flow, l)
      /\ UNCHANGED <<activeConferences, callHistory, liveTranscripts, nextConf, now,
                     hasApiKey>>

(***************************************************************************)
(* After `await createConference(...)`: store the conversation, update the *)
(* call history and dial the AI agent's SIP endpoint.                      *)
(***************************************************************************)
\* dialElevenLabsSIP(agentPhoneNumber, conferenceId, callerFrom): the request it sends
DialRequest(agentPhoneNumber, conferenceId, callerFrom) ==
  Request("dial", Null, conferenceId, agentPhoneNumber, EncodeAILeg(conferenceId, callerFrom))

\* The inbound flow updates the entry found by leg id; the outbound flows add one.
HistoryAfterCreate(h, conferenceId) ==
  IF h.flow = "inbound"
  THEN LET i == FindIndex({j \in DOMAIN callHistory :
                                callHistory[j].callControlId = h.leg})
       IN  IF i = 0 THEN callHistory
           ELSE [callHistory EXCEPT ![i].status = "in_progress",
                                    ![i].conferenceId = conferenceId]
  ELSE Unshift(callHistory, HistoryEntry(h.leg, "outbound", "in_progress", conferenceId))

\* A variant of StoreConversation that stores nothing.
StoreConversation_Skip(h, conferenceId) == activeConferences

\* activeConferences.set(callControlId, {...})
StoreConversation(h, conferenceId) ==
  IF h.flow = "inbound"
  THEN MapSet(activeConferences, h.leg,
              Conversation(conferenceId, h.from, h.leg, h.to, FALSE))
  ELSE MapSet(activeConferences, h.leg,
              Conversation(conferenceId, h.to, h.leg, h.from, TRUE))

CreateReturn(h, success) ==
  /\ h.pc = "awaitCreate"
  /\ IF success
     THEN LET conferenceId == ConfNames[nextConf]
          IN  /\ nextConf' = nextConf + 1
              /\ activeConferences' = StoreConversation(h, conferenceId)
              /\ callHistory' = HistoryAfterCreate(h, conferenceId)
              /\ requests' = Send(requests,
                   IF h.flow = "inbound"
                   THEN DialRequest(h.to, conferenceId, h.from)
                   ELSE DialRequest(h.from, conferenceId, h.to))
              /\ handlers' = (handlers (-) SetToBag({h})) (+) SetToBag({
                   Handler("awaitDial", h.flow, h.leg, conferenceId, h.from, h.to)})
     ELSE /\ handlers' = handlers (-) SetToBag({h})
          /\ UNCHANGED <<nextConf, activeConferences, callHistory, requests>>
  /\ UNCHANGED <<pendingCalls, pendingOutboundCalls, liveTranscripts, eventsLeft, events_stored, now,
                 hasApiKey, hungUp>>

(***************************************************************************)
(* After `await dialElevenLabsSIP(...)`.  The outbound flows notify the    *)
(* supervisory system; the fallback flow also starts transcription.        *)
(***************************************************************************)
\* A variant of DialReturn that dials again when the dial failed.
DialReturn_Retry(h, success) ==
  /\ h.pc = "awaitDial"
  /\ IF success
     THEN /\ handlers' = handlers (-) SetToBag({h})
          /\ UNCHANGED requests
     ELSE /\ requests' = Send(requests, DialRequest(h.to, h.conf, h.from))
          /\ UNCHANGED handlers
  /\ UNCHANGED <<pendingCalls, pendingOutboundCalls, activeConferences, callHistory,
                 liveTranscripts, nextConf, eventsLeft, events_stored, now, hasApiKey,
                 hungUp>>

DialReturn(h, success) ==
  /\ h.pc = "awaitDial"
  /\ IF success /\ h.flow \in {"ai_outbound", "fallback"}
     THEN LET n == Notify(requests, Request("outbound-connected", h.leg, h.conf, Null, NoClientState))
          IN  IF h.flow = "fallback"
              THEN /\ requests' = Send(n, Request("startTranscription", Null, h.conf, Null, NoClientState))
                   /\ handlers' = (handlers (-) SetToBag({h})) (+) SetToBag({
                        Handler("awaitTranscription", h.flow, h.leg, h.conf, Null, Null)})
              ELSE /\ requests' = n
                   /\ handlers' = handlers (-) SetToBag({h})
     ELSE /\ handlers' = handlers (-) SetToBag({h})
          /\ UNCHANGED requests
  /\ UNCHANGED <<pendingCalls, pendingOutboundCalls, activeConferences, callHistory,
                 liveTranscripts, nextConf, eventsLeft, events_stored, now, hasApiKey, hungUp>>

\* startTranscription(...) is not awaited by the handler; its result only
\* initialises the transcript buffer.
TranscriptionReturn(h, success) ==
  /\ h.pc = "awaitTranscription"
  /\ handlers' = handlers (-) SetToBag({h})
  /\ liveTranscripts' = IF success THEN MapSet(liveTranscripts, h.conf, <<>>)
                        ELSE liveTranscripts
  /\ UNCHANGED <<pendingCalls, pendingOutboundCalls, activeConferences, callHistory,
                 requests, nextConf, eventsLeft, events_stored, now, hasApiKey, hungUp>>

(***************************************************************************)
(* After `await joinConference(...)` in the AI-leg and the human-takeover  *)
(* flows.                                                                  *)
(***************************************************************************)
\* A variant of MarkAIConnected that flips the connected flag at every join.
MarkAIConnected_Flip(conv, l) ==
  [conv EXCEPT !.aiCallControlId = l, !.aiConnected = ~conv.aiConnected]

\* confData.aiCallControlId = callControlId; confData.aiConnected = true
MarkAIConnected(conv, l) == [conv EXCEPT !.aiCallControlId = l, !.aiConnected = TRUE]

\* A variant of MarkUserJoined that does not record the joining leg.
MarkUserJoined_NoLeg(conv, l) == [conv EXCEPT !.userJoined = TRUE]

\* conf.userJoined = true; conf.userCallControlId = callControlId
MarkUserJoined(conv, l) == [conv EXCEPT !.userJoined = TRUE, !.userCallControlId = l]

\* A variant of ConferencesAfterJoin that ignores the result of the join.
ConferencesAfterJoin_IgnoreResult(h, success) ==
  IF FindByConferenceId(h.conf) # {}
  THEN LET k == CHOOSE x \in FindByConferenceId(h.conf) : TRUE
       IN  [activeConferences EXCEPT ![k] =
              IF h.flow = "ai_leg" THEN MarkAIConnected(@, h.leg)
              ELSE MarkUserJoined(@, h.leg)]
  ELSE activeConferences

\* The table after a join returned: unchanged on failure or when no
\* conversation has the conference id.
ConferencesAfterJoin(h, success) ==
  IF success /\ FindByConferenceId(h.conf) # {}
  THEN LET k == CHOOSE x \in FindByConferenceId(h.conf) : TRUE
       IN  [activeConferences EXCEPT ![k] =
              IF h.flow = "ai_leg" THEN MarkAIConnected(@, h.leg)
              ELSE MarkUserJoined(@, h.leg)]
  ELSE activeConferences

\* callHistory.find(h => h.conferenceId === clientState.conferenceId)
HistoryAfterJoin(h, success) ==
  IF success /\ h.flow = "ai_leg" /\ FindByConferenceId(h.conf) # {}
  THEN LET i == FindIndex({j \in DOMAIN callHistory :
                                callHistory[j].conferenceId = h.conf})
       IN  IF i = 0 THEN callHistory
           ELSE [callHistory EXCEPT ![i].aiCallControlId = h.leg,
                                    ![i].status = "connected"]
  ELSE callHistory

JoinReturn(h, success) ==
  /\ h.pc = "awaitJoin"
  /\ handlers' = handlers (-) SetToBag({h})
  /\ activeConferences' = ConferencesAfterJoin(h, success)
  /\ callHistory' = HistoryAfterJoin(h, success)
  /\ requests' =
       IF success /\ h.flow = "conference_join" /\ h.from # Undefined
       THEN Notify(requests, Request("user-joined", h.leg, h.conf, Null, NoClientState))
       ELSE requests
  /\ UNCHANGED <<pendingCalls, pendingOutboundCalls, liveTranscripts, nextConf,
                 eventsLeft, events_stored, now, hasApiKey, hungUp>>

(***************************************************************************)
(* handleCallHangup, up to the awaited call-ended notification.            *)
(***************************************************************************)
\* The entry of the leg, as caller or as AI leg, is completed once.
HistoryAfterHangup(l) ==
  LET i == FindIndex({j \in DOMAIN callHistory :
                         \/ callHistory[j].callControlId = l
                         \/ callHistory[j].aiCallControlId = l})
  IN  IF i = 0 \/ callHistory[i].ended THEN callHistory
      ELSE [callHistory EXCEPT ![i].ended = TRUE, ![i].status = "completed"]

\* A variant of DeleteAnchored that leaves the conversation in the table.
DeleteAnchored_Keep(m, l) == m

\* if (activeConferences.has(id)) activeConferences.delete(id)
DeleteAnchored(m, l) == MapDelete(m, l)

\* A variant of ClearAI that empties the AI leg id and keeps the connected flag.
ClearAI_KeepFlag(conv) == [conv EXCEPT !.aiCallControlId = Null]

\* confData.aiCallControlId = null; confData.aiConnected = false
ClearAI(conv) == [conv EXCEPT !.aiCallControlId = Null, !.aiConnected = FALSE]

\* A variant of ClearAILeg that drops the conversation whose AI leg hung up.
ClearAILeg_Drop(m, l) ==
  [k \in {x \in DOMAIN m : m[x].aiCallControlId # l} |-> m[k]]

\* for (... of activeConferences.entries()) if (confData.aiCallControlId === id) {...}
ClearAILeg(m, l) ==
  [k \in DOMAIN m |-> IF m[k].aiCallControlId = l THEN ClearAI(m[k]) ELSE m[k]]

\* A variant of PendingAfterHangup that drops the Pending Call of every leg.
PendingAfterHangup_All(l) == EmptyMap

\* A variant of PendingAfterHangup that leaves the entry of the leg in place.
PendingAfterHangup_Keep(l) == pendingCalls

\* if (pendingCalls.has(callControlId)) pendingCalls.delete(callControlId)
PendingAfterHangup(l) == MapDelete(pendingCalls, l)

\* A variant of RequestsAfterHangup that notifies only for a leg the tables know.
RequestsAfterHangup_OnlyIfKnown(l) ==
  IF MapHas(pendingCalls, l) \/ MapHas(activeConferences, l)
  THEN Notify(requests, Request("call-ended", l, Null, Null, NoClientState))
  ELSE requests

\* await fetch(`${cortexUrl}/api/calls/call-ended`, ...): attempted for every hangup
RequestsAfterHangup(l) ==
  Notify(requests, Request("call-ended", l, Null, Null, NoClientState))

handleCallHangup(l) ==
  /\ Dispatch(l, "hangup")
  /\ callHistory' = HistoryAfterHangup(l)
  /\ pendingCalls' = PendingAfterHangup(l)
  /\ activeConferences' = ClearAILeg(DeleteAnchored(activeConferences, l), l)
  /\ handlers' = handlers (+)
       SetToBag({Handler("awaitNotify", "hangup", l, Null, Null, Null)}
                \cup IF MapHas(activeConferences, l)
                     THEN {Handler("transcriptTimer", "hangup", l,
                                   activeConferences[l].conferenceId, Null, Null)}
                     ELSE {})
  /\ requests' = RequestsAfterHangup(l)
  /\ UNCHANGED <<pendingOutboundCalls, liveTranscripts, nextConf, now, hasApiKey>>

\* A variant of NotifyReturn that gives up the conversations when the
\* notification failed.
NotifyReturn_DropOnFailure(h, success) ==
  /\ h.pc = "awaitNotify"
  /\ handlers' = handlers (-) SetToBag({h})
  /\ activeConferences' = IF success THEN activeConferences ELSE EmptyMap
  /\ UNCHANGED <<pendingCalls, pendingOutboundCalls, callHistory,
                 liveTranscripts, requests, nextConf, eventsLeft, events_stored, now, hasApiKey, hungUp>>

\* The notification returned (success) or the fetch threw: either way the
\* handler only logs and ends.
NotifyReturn(h, success) ==
  /\ h.pc = "awaitNotify"
  /\ handlers' = handlers (-) SetToBag({h})
  /\ UNCHANGED <<pendingCalls, pendingOutboundCalls, activeConferences, callHistory,
                 liveTranscripts, requests, nextConf, eventsLeft, events_stored, now, hasApiKey, hungUp>>

\* setTimeout(() => liveTranscripts.delete(confData.conferenceId), 5 * 60 * 1000)
TranscriptTimer(h) ==
  /\ h.pc = "transcriptTimer"
  /\ handlers' = handlers (-) SetToBag({h})
  /\ liveTranscripts' = MapDelete(liveTranscripts, h.conf)
  /\ UNCHANGED <<pendingCalls, pendingOutboundCalls, activeConferences, callHistory,
                 requests, nextConf, eventsLeft, events_stored, now, hasApiKey, hungUp>>

(***************************************************************************)
(* The webhooks the provider may deliver.  Each step records in `last`     *)
(* which handler segment ran, for which leg, and its flow or outcome.      *)
(***************************************************************************)
Directions == {"inbound", "incoming", "outgoing"}

ToAddresses == {AgentNumber, OtherNumber, SipUri}

FromAddresses == {AgentNumber, OtherNumber}

\* The conference ids a token may name: the issued ones and one unknown id.
TokenConfs == IssuedConfs \cup {"C0"}

AILegTokens == {EncodeAILeg(c, OtherNumber) : c \in TokenConfs}

ClientStates ==
  {NoClientState, Garbage, << <<"type", "other">> >>}
  \cup AILegTokens
  \cup {<< <<"type", "conference_join">>, <<"conference_id", c>>,
           <<"original_call_id", "call1">> >> : c \in TokenConfs}
  \cup {<< <<"type", "conference_join">>, <<"conference_id", c>> >> : c \in TokenConfs}
  \cup {<< <<"type", "ai_outbound">>, <<"to_number", OtherNumber>> >>}

\* A remote call can succeed only when its request was sent.
Outcomes == IF hasApiKey THEN BOOLEAN ELSE {FALSE}

\* The conference id an answered event names in its token, Null when none.
TokenConf(b64) ==
  CASE TokenType(b64) = "ai_leg" -> Get(Decode(b64), "conferenceId")
    [] TokenType(b64) = "conference_join" -> Get(Decode(b64), "conference_id")
    [] OTHER -> Null

Initiated(L, D, T, F) ==
  \E l \in L, d \in D, to \in T, from \in F :
    /\ handleCallInitiated(l, d, to, from)
    /\ last' = Step("initiated", l, d, Null, TRUE)

Answered(L, C, F) ==
  \E l \in L, b64 \in C, from \in F :
    /\ handleCallAnswered(l, b64, from)
    /\ last' = [Step("answered", l, AnsweredFlow(l, b64), TokenConf(b64), TRUE)
                  EXCEPT !.token = b64]

Hangup(L) ==
  \E l \in L :
    /\ handleCallHangup(l)
    /\ last' = Step("hangup", l, "hangup", Null, TRUE)

AnswerReturns ==
  \E h \in BagToSet(handlers), ok \in Outcomes :
    AnswerReturn(h, ok) /\ last' = Step("answerReturn", h.leg, h.flow, h.conf, ok)

CreateReturns ==
  \E h \in BagToSet(handlers), ok \in Outcomes :
    CreateReturn(h, ok) /\ last' = Step("createReturn", h.leg, h.flow, h.conf, ok)

DialReturns ==
  \E h \in BagToSet(handlers), ok \in Outcomes :
    DialReturn(h, ok) /\ last' = Step("dialReturn", h.leg, h.flow, h.conf, ok)

JoinReturns ==
  \E h \in BagToSet(handlers), ok \in Outcomes :
    JoinReturn(h, ok) /\ last' = Step("joinReturn", h.leg, h.flow, h.conf, ok)

TranscriptionReturns ==
  \E h \in BagToSet(handlers), ok \in Outcomes :
    TranscriptionReturn(h, ok) /\ last' = Step("transcriptionReturn", h.leg, h.flow, h.conf, ok)

NotifyReturns ==
  \E h \in BagToSet(handlers), ok \in BOOLEAN :
    NotifyReturn(h, ok) /\ last' = Step("notifyReturn", h.leg, h.flow, h.conf, ok)

TranscriptTimers ==
  \E h \in BagToSet(handlers) :
    TranscriptTimer(h) /\ last' = Step("transcriptTimer", h.leg, h.flow, h.conf, TRUE)

\* Any webhook for two legs, any payload.
Next ==
  \/ Initiated({"L1", "L2"}, Directions, ToAddresses, FromAddresses)
  \/ Answered({"L1", "L2"}, ClientStates, FromAddresses)
  \/ Hangup({"L1", "L2"})
  \/ AnswerReturns \/ CreateReturns \/ DialReturns \/ JoinReturns
  \/ TranscriptionReturns \/ NotifyReturns \/ TranscriptTimers

Spec == Init /\ [][Next]_vars

\* The inbound and AI-leg flows for three legs.
NextCore ==
  \/ Initiated(Legs, {"inbound"}, {AgentNumber}, {OtherNumber})
  \/ Answered(Legs, {NoClientState} \cup AILegTokens, {OtherNumber})
  \/ Hangup(Legs)
  \/ AnswerReturns \/ CreateReturns \/ DialReturns \/ JoinReturns
  \/ NotifyReturns \/ TranscriptTimers

SpecCore == InitCore /\ [][NextCore]_vars

\* The inbound flow alone for two legs.
NextRace ==
  \/ Initiated({"L1", "L2"}, {"inbound"}, {AgentNumber}, {OtherNumber})
  \/ Answered({"L1", "L2"}, {NoClientState}, {OtherNumber})
  \/ Hangup({"L1", "L2"})
  \/ AnswerReturns \/ CreateReturns \/ DialReturns \/ NotifyReturns \/ TranscriptTimers

InitRace == Start(MaxRaceEvents)

SpecRace == InitRace /\ [][NextRace]_vars

\* Inbound and tracked outbound legs for two legs, answered without a token.
NextDispatch ==
  \/ Initiated({"L1", "L2"}, {"inbound", "outgoing"}, {AgentNumber, OtherNumber},
               FromAddresses)
  \/ Answered({"L1", "L2"}, {NoClientState}, {OtherNumber})
  \/ Hangup({"L1", "L2"})
  \/ AnswerReturns \/ CreateReturns \/ DialReturns
  \/ TranscriptionReturns \/ NotifyReturns \/ TranscriptTimers

SpecDispatch == Init /\ [][NextDispatch]_vars

\* Tracked outbound legs while the clock moves on.
NextTime ==
  \/ Initiated({"L1", "L2"}, {"outgoing"}, {OtherNumber}, {AgentNumber})
  \/ Answered({"L1", "L2"}, {NoClientState}, {OtherNumber})
  \/ Hangup({"L1", "L2"})
  \/ AdvanceTime
  \/ CreateReturns \/ DialReturns
  \/ TranscriptionReturns \/ NotifyReturns \/ TranscriptTimers

SpecTime == Init /\ [][NextTime]_vars

(***************************************************************************)
(* A second call while a first conversation is up.  The inbound call of L1 *)
(* was initiated, answered and answered back, its conference C1 created    *)
(* and its AI dial placed; every handler has returned.                     *)
(* SpecRace reaches this state after two webhooks.                         *)
(***************************************************************************)
Bridged ==
  /\ pendingCalls = EmptyMap
  /\ pendingOutboundCalls = EmptyMap
  /\ activeConferences =
       MapSet(EmptyMap, "L1", Conversation("C1", OtherNumber, "L1", AgentNumber, FALSE))
  /\ callHistory = <<HistoryEntry("L1", "inbound", "in_progress", "C1")>>
  /\ liveTranscripts = EmptyMap
  /\ handlers = EmptyBag
  /\ requests = SetToBag({Request("answer", "L1", Null, Null, NoClientState),
                          Request("createConference", "L1", Null, "call", NoClientState),
                          DialRequest(AgentNumber, "C1", OtherNumber)})
  /\ nextConf = 2
  /\ now = 0
  /\ hasApiKey = TRUE
  /\ events_stored = 2
  /\ hungUp = {}
  /\ last = Step("dialReturn", "L1", "inbound", "C1", TRUE)

InitBridged == Bridged /\ eventsLeft = MaxBridgedEvents

\* The client_state values of the AI dials placed so far.
DialTokens == {r.token : r \in {x \in BagToSet(requests) : x.op = "dial"}}

NextBridged ==
  \/ Initiated({"L2"}, {"inbound"}, {AgentNumber}, {OtherNumber})
  \/ Answered({"L2", "L3"}, {NoClientState} \cup DialTokens, {OtherNumber})
  \/ Hangup({"L2", "L3"})
  \/ AnswerReturns \/ CreateReturns \/ DialReturns \/ JoinReturns
  \/ NotifyReturns \/ TranscriptTimers

SpecBridged == InitBridged /\ [][NextBridged]_vars

(***************************************************************************)
(* C1.  Consuming a Pending Call is exclusive: the inbound flow issues at  *)
(* most one createConference for each Pending Call recorded for a leg      *)
(* (each recording comes with one answer request), so a second             *)
(* call.answered dispatched while the first awaits createConference        *)
(* issues none.                                                            *)
(***************************************************************************)
InboundCreates(l) ==
  LET P(r) == r.op = "createConference" /\ r.leg = l /\ r.name = "call"
  IN  CountWhere(P)

C1_PendingConsumedOnce ==
  \A l \in Legs : InboundCreates(l) <= Count("answer", l)

\* The second call.answered for L1 was dispatched while the first handler
\* awaits createConference, and one request was issued.
C1_Witness ==
  /\ last = Step("answered", "L1", "no_match", Null, TRUE)
  /\ \E h \in BagToSet(handlers) :
        h.pc = "awaitCreate" /\ h.flow = "inbound" /\ h.leg = "L1"
  /\ Count("answer", "L1") = 1
  /\ InboundCreates("L1") = 1

(***************************************************************************)
(* C2.  For every leg, the AI-leg flow issues at most one joinConference,  *)
(* also when the call.answered event carrying the ai_leg token is          *)
(* delivered twice.                                                        *)
(***************************************************************************)
C2_AtMostOneJoin ==
  \A l \in Legs : Count("joinConference", l) <= 1

(***************************************************************************)
(* C3.  For every inbound leg to an agent number, no more than one answer  *)
(* request is ever issued, also when call.initiated is delivered again.    *)
(***************************************************************************)
C3_ExactlyOneAnswer ==
  \A l \in Legs : Count("answer", l) <= 1

(***************************************************************************)
(* C4.  A recorded Pending Call stays until a step removes it, and the     *)
(* only steps that remove Pending Call[L] are the call.answered event for  *)
(* L and the call.hangup event for L.                                      *)
(***************************************************************************)
PendingRemoved(l) == l \in DOMAIN pendingCalls /\ l \notin DOMAIN pendingCalls'

C4_RemovedOnlyByAnsweredOrHangup ==
  [][\A l \in Legs :
       PendingRemoved(l) =>
         last'.leg = l /\ last'.step \in {"answered", "hangup"}]_vars

\* C4 as amended: the steps that remove Pending Call[L] are the call.answered
\* event for L taking the inbound flow, the call.hangup event for L, and the
\* call.initiated handler for L rolling back after its answer request failed.
C4_RemovedOnlyByAnsweredHangupOrRollback ==
  [][\A l \in Legs :
       PendingRemoved(l) =>
         \/ last'.step = "answered" /\ last'.leg = l /\ last'.flow = "inbound"
         \/ last' = Step("hangup", l, "hangup", Null, TRUE)
         \/ last' = Step("answerReturn", l, "initiated", Null, FALSE)]_vars

\* The failed answer request for L1 has just rolled its Pending Call back:
\* no call.answered and no call.hangup for L1 was dispatched before.
C4_Witness ==
  /\ last = Step("answerReturn", "L1", "initiated", Null, FALSE)
  /\ Count("answer", "L1") = 1
  /\ Count("createConference", "L1") = 0
  /\ Count("call-ended", "L1") = 0
  /\ "L1" \notin DOMAIN pendingCalls

(***************************************************************************)
(* C5.  Once the call.hangup of leg L has been processed (and no later     *)
(* event for L arrived) and every in-flight handler has finished, no       *)
(* Active Conversation anchored on L remains.                              *)
(***************************************************************************)
\* No handler is suspended at an await; a pending clean-up timer is no handler.
Quiescent == \A h \in BagToSet(handlers) : h.pc = "transcriptTimer"

C5_NoConversationAfterHangup ==
  \A l \in hungUp : Quiescent => l \notin DOMAIN activeConferences

(***************************************************************************)
(* C6.  When call.hangup for a leg is processed while an Active            *)
(* Conversation anchored on that leg exists, the conversation is deleted   *)
(* from the table and one call-ended notification is attempted.            *)
(***************************************************************************)
HangupOf(l) == last' = Step("hangup", l, "hangup", Null, TRUE)

C6_HangupDeletesAnchored ==
  [][\A l \in Legs :
       (HangupOf(l) /\ l \in DOMAIN activeConferences) =>
         /\ l \notin DOMAIN activeConferences'
         /\ Count("call-ended", l)' = Count("call-ended", l) + 1]_vars

\* The only hangup of L1 so far found a conversation anchored on L1 (its
\* clean-up timer was armed) and has just removed it.
C6_Witness ==
  /\ last = Step("hangup", "L1", "hangup", Null, TRUE)
  /\ Count("call-ended", "L1") = 1
  /\ \E h \in BagToSet(handlers) : h.pc = "transcriptTimer" /\ h.leg = "L1"
  /\ "L1" \notin DOMAIN activeConferences

(***************************************************************************)
(* C7.  A call.hangup for a leg that is the AI participant of an Active    *)
(* Conversation, and not the anchor of that conversation, only clears that *)
(* conversation's AI slot: the conversation stays under the same key with  *)
(* its other fields unchanged, and no other conversation is modified.      *)
(***************************************************************************)
\* Conversation k after the step: still there, AI slot cleared, rest unchanged.
OnlyAISlotCleared(k) ==
  /\ k \in DOMAIN activeConferences'
  /\ activeConferences'[k] =
       [activeConferences[k] EXCEPT !.aiCallControlId = Null, !.aiConnected = FALSE]

\* Conversation k is the same before and after the step.
Untouched(k) ==
  /\ k \in DOMAIN activeConferences'
  /\ activeConferences'[k] = activeConferences[k]

AIParticipantOf(l) ==
  {k \in DOMAIN activeConferences : activeConferences[k].aiCallControlId = l /\ k # l}

AnsweredWithoutToken(l) ==
  /\ last'.step = "answered"
  /\ last'.leg = l
  /\ last'.flow \in {"fallback", "inbound", "no_match"}

C8_InboundAnsweredSetsUp ==
  [][\A l \in Legs :
       /\ (AnsweredWithoutToken(l) /\ l \in DOMAIN pendingCalls) =>
            /\ Count("createConference", l)' = Count("createConference", l) + 1
            /\ l \notin DOMAIN pendingCalls'
       /\ last' = Step("createReturn", l, "inbound", Null, TRUE) =>
            /\ l \in DOMAIN activeConferences'
            /\ activeConferences'[l].conferenceId = ConfNames[nextConf]
            /\ requests' = requests (+) SetToBag({
                 Request("dial", Null, ConfNames[nextConf],
                         activeConferences'[l].agentPhoneNumber,
                         << <<"type", "ai_leg">>,
                            <<"conferenceId", ConfNames[nextConf]>>,
                            <<"callerFrom", activeConferences'[l].callerFrom>> >>)})]_vars

(***************************************************************************)
(* C9.  When call.answered for a leg carries an ai_leg token naming a      *)
(* conference, joinConference is requested for that conference and leg; if *)
(* the join succeeds and an Active Conversation has that conference id, it *)
(* is marked AI-connected with the leg as its AI leg; if the join fails,    *)
(* the table is left as it was.                                            *)
(***************************************************************************)
C9_AILegJoinMarksConnected ==
  [][\A l \in Legs :
       LET c == last'.conf
       IN  /\ (last'.step = "answered" /\ last'.leg = l /\ last'.flow = "ai_leg") =>
                requests' = requests (+)
                  SetToBag({Request("joinConference", l, c, Null, NoClientState)})
           /\ last' = Step("joinReturn", l, "ai_leg", c, TRUE) =>
                \A k \in FindByConferenceId(c) :
                  /\ k \in DOMAIN activeConferences'
                  /\ activeConferences'[k].aiConnected
                  /\ activeConferences'[k].aiCallControlId = l
           /\ last' = Step("joinReturn", l, "ai_leg", c, FALSE) =>
                activeConferences' = activeConferences]_vars

\* The join of L3 into conference C1 has just succeeded and the conversation
\* of L1, which holds C1, is marked.
C9_Witness ==
  /\ last = Step("joinReturn", "L3", "ai_leg", "C1", TRUE)
  /\ "L1" \in DOMAIN activeConferences
  /\ activeConferences["L1"].conferenceId = "C1"
  /\ activeConferences["L1"].aiConnected
  /\ activeConferences["L1"].aiCallControlId = "L3"

(***************************************************************************)
(* C10.  Tracked outbound entries expire: an entry older than the TTL has  *)
(* been discarded by the periodic sweep, so a call.answered event never    *)
(* matches one.  One tick of the clock is longer than the TTL plus a sweep *)
(* period, so an entry recorded before the current tick is expired.        *)
(***************************************************************************)
C10_ExpiredEntryNeverMatched ==
  [][\A l \in Legs :
       (last'.step = "answered" /\ last'.leg = l /\ last'.flow = "fallback") =>
         pendingOutboundCalls[l].timestamp = now]_vars

(***************************************************************************)
(* Inbound calls from several caller addresses (one of them missing from   *)
(* the payload), where the provider echoes the token of an AI dial as the  *)
(* client_state of the AI leg's call.answered.                             *)
(***************************************************************************)
Callers == {OtherNumber, AgentNumber, "+15550101", Undefined}

InitEcho == Start(MaxEchoEvents)

NextEcho ==
  \/ Initiated({"L1", "L2"}, {"inbound"}, {AgentNumber}, Callers)
  \/ Answered({"L1", "L2"}, {NoClientState}, {OtherNumber})
  \/ Answered({"L3"}, DialTokens, {AgentNumber})
  \/ AnswerReturns \/ CreateReturns \/ DialReturns \/ JoinReturns

SpecEcho == InitEcho /\ [][NextEcho]_vars

(***************************************************************************)
(* C11.  Round trip of the client-state codec: decoding the token that the *)
(* AI dial encoded from {type, conferenceId, callerFrom} yields the same   *)
(* type, conference id and caller address.  Stated for every AI dial in    *)
(* flight (its handler still holds what was encoded) and for every AI leg  *)
(* answered with an echoed token.                                          *)
(***************************************************************************)
\* The record the answered handler reads from token b64.
Decoded(b64) ==
  [type |-> Get(Decode(b64), "type"),
   conferenceId |-> Get(Decode(b64), "conferenceId"),
   callerFrom |-> Get(Decode(b64), "callerFrom")]

C11_CodecRoundTrip ==
  /\ \A h \in BagToSet(handlers) :
       h.pc = "awaitDial" =>
         \E r \in BagToSet(requests) :
           /\ r.op = "dial" /\ r.conf = h.conf
           /\ Parses(r.token)
           /\ Decoded(r.token) =
                [type |-> "ai_leg", conferenceId |-> h.conf, callerFrom |-> h.from]
  /\ \A h \in BagToSet(handlers) :
       (h.pc = "awaitJoin" /\ h.leg = "L3") =>
         \E r \in BagToSet(requests) : r.op = "dial" /\ r.conf = h.conf

\* The AI dial for a caller without an address is in flight and its echoed
\* token has just been decoded by the answered handler of L3.
C11_Witness ==
  /\ last.step = "answered" /\ last.leg = "L3" /\ last.flow = "ai_leg"
  /\ last.conf = "C1"
  /\ \E h \in BagToSet(handlers) :
       h.pc = "awaitDial" /\ h.conf = "C1" /\ h.from = Undefined
  /\ \E h \in BagToSet(handlers) :
       h.pc = "awaitJoin" /\ h.leg = "L3" /\ h.conf = "C1"

(***************************************************************************)
(* Inbound and tracked outbound legs whose call.answered carries no token, *)
(* a token that does not parse, or a token of an unknown kind.             *)
(***************************************************************************)
UnusableTokens == {NoClientState, Garbage, << <<"type", "other">> >>}

InitFallThrough == Start(MaxFallThroughEvents)

NextFallThrough ==
  \/ Initiated({"L1", "L2"}, {"inbound", "outgoing"}, {AgentNumber, OtherNumber},
               FromAddresses)
  \/ Answered({"L1", "L2"}, UnusableTokens, {OtherNumber})
  \/ Hangup({"L1", "L2"})
  \/ AnswerReturns \/ CreateReturns \/ DialReturns
  \/ TranscriptionReturns \/ NotifyReturns \/ TranscriptTimers

SpecFallThrough == InitFallThrough /\ [][NextFallThrough]_vars

(***************************************************************************)
(* C12.  A call.answered event that carries no recognised token and whose  *)
(* leg id matches neither a Pending Call nor a tracked outbound attempt is *)
(* a no-op: no remote call is issued, no handler is left suspended, and    *)
(* the Pending Call, tracked-outbound, Active Conversation and             *)
(* call-history tables are unchanged.                                      *)
(***************************************************************************)
\* The payload's client_state is absent, does not parse, or names no known kind.
NoRecognisedToken(b64) ==
  \/ b64 = NoClientState
  \/ ~Parses(b64)
  \/ Get(Decode(b64), "type") \notin {"ai_leg", "conference_join", "ai_outbound"}

C12_UnmatchedAnsweredIsNoOp ==
  [][\A l \in Legs :
       (/\ last'.step = "answered" /\ last'.leg = l
        /\ NoRecognisedToken(last'.token)
        /\ l \notin DOMAIN pendingCalls
        /\ l \notin DOMAIN pendingOutboundCalls) =>
         /\ requests' = requests
         /\ handlers' = handlers
         /\ UNCHANGED <<pendingCalls, pendingOutboundCalls, activeConferences, callHistory>>]_vars

\* An unmatched call.answered for L1 with a token of an unknown kind has just
\* been dispatched while L2 has a Pending Call: nothing was issued for L1.
C12_Witness ==
  /\ last.step = "answered" /\ last.leg = "L1"
  /\ last.token = << <<"type", "other">> >>
  /\ last.flow = "no_match"
  /\ "L2" \in DOMAIN pendingCalls
  /\ Count("createConference", "L1") = 0

(***************************************************************************)
(* C13.  If the answer request fails for an inbound leg, its Pending Call  *)
(* is deleted and the handler ends without a second answer request; a      *)
(* later call.answered for that leg (no recognised token, the leg not      *)
(* tracked as an outbound attempt) creates no conference.                  *)
(***************************************************************************)
\* The one answer request issued for l has returned, and the Pending Call of
\* l is gone although neither a call.answered consumed it nor a call.hangup
\* removed it: the answer failed and the handler rolled the entry back.
AnswerFailedFor(l) ==
  /\ Count("answer", l) = 1
  /\ \A h \in BagToSet(handlers) : ~(h.pc = "awaitAnswer" /\ h.leg = l)
  /\ l \notin DOMAIN pendingCalls
  /\ Count("createConference", l) = 0
  /\ Count("call-ended", l) = 0

C13_FailedAnswerRollsBack ==
  [][\A l \in Legs :
       /\ last' = Step("answerReturn", l, "initiated", Null, FALSE) =>
            /\ l \notin DOMAIN pendingCalls'
            /\ requests' = requests
            /\ \A h \in BagToSet(handlers') : CopiesIn(h, handlers') <= CopiesIn(h, handlers)
       /\ (/\ AnswerFailedFor(l)
           /\ l \notin DOMAIN pendingOutboundCalls
           /\ last'.step = "answered" /\ last'.leg = l
           /\ NoRecognisedToken(last'.token)) =>
            /\ requests' = requests
            /\ activeConferences' = activeConferences]_vars

\* The answer for L1 failed, and the call.answered for L1 that arrived
\* afterwards has just been dispatched without creating a conference.
C13_Witness ==
  /\ last.step = "answered" /\ last.leg = "L1" /\ last.flow = "no_match"
  /\ AnswerFailedFor("L1")

(***************************************************************************)
(* C14.  call.answered is dispatched by client-state token first, then by  *)
(* Pending Call, then by tracked outbound attempt: when the event carries  *)
(* no token and its leg is in both tables, the inbound flow is taken and   *)
(* the tracked outbound entry is not consumed.                             *)
(***************************************************************************)
C14_PendingBeforeTrackedOutbound ==
  [][\A l \in Legs :
       (/\ last'.step = "answered" /\ last'.leg = l
        /\ last'.token = NoClientState
        /\ l \in DOMAIN pendingCalls
        /\ l \in DOMAIN pendingOutboundCalls) =>
         /\ last'.flow = "inbound"
         /\ l \notin DOMAIN pendingCalls'
         /\ l \in DOMAIN pendingOutboundCalls']_vars

(***************************************************************************)
(* C15.  A call.answered event whose token does not parse or names an      *)
(* unknown kind never raises an error: the handler goes on to the table    *)
(* lookups and the step it takes is exactly a step of the handler for the  *)
(* same leg with no token at all.                                          *)
(***************************************************************************)
\* The payload carries a client_state, and it is malformed or of an unknown kind.
UnusableToken(b64) ==
  /\ b64 # NoClientState
  /\ NoRecognisedToken(b64)

C15_UnusableTokenAsNoToken ==
  [][\A l \in Legs :
       (/\ last'.step = "answered" /\ last'.leg = l
        /\ UnusableToken(last'.token)) =>
         /\ \E from \in FromAddresses : handleCallAnswered(l, NoClientState, from)
         /\ last'.flow = AnsweredFlow(l, NoClientState)]_vars

\* A call.answered with an unusable token has just started the inbound flow or
\* the fallback outbound flow for its leg, as the token-less event would have.
C15_Witness ==
  /\ last.step = "answered"
  /\ UnusableToken(last.token)
  /\ last.flow \in {"inbound", "fallback"}
  /\ \E h \in BagToSet(handlers) :
       h.pc = "awaitCreate" /\ h.leg = last.leg /\ h.flow = last.flow

(***************************************************************************)
(* Outbound contact legs: dialled from an agent number and tracked, or     *)
(* identified by the ai_outbound token of their call.answered.             *)
(***************************************************************************)
MaxOutboundEvents == 3

OutboundTokens ==
  {NoClientState, << <<"type", "ai_outbound">>, <<"to_number", OtherNumber>> >>}

InitOutbound == Start(MaxOutboundEvents)

NextOutbound ==
  \/ Initiated({"L1", "L2"}, {"outgoing"}, ToAddresses, FromAddresses)
  \/ Answered({"L1", "L2"}, OutboundTokens, {AgentNumber})
  \/ Hangup({"L1", "L2"})
  \/ CreateReturns \/ DialReturns
  \/ TranscriptionReturns \/ NotifyReturns \/ TranscriptTimers

SpecOutbound == InitOutbound /\ [][NextOutbound]_vars

(***************************************************************************)
(* C16.  A call.answered that identifies an outbound contact leg (by an    *)
(* ai_outbound token or by its tracked outbound attempt) asks for a        *)
(* conference anchored on that leg; when the conference is created a       *)
(* conversation keyed by the leg is stored and the AI agent is dialled     *)
(* with a token naming the new conference; when creation fails nothing is  *)
(* stored and nothing is dialled.                                          *)
(***************************************************************************)
OutboundFlows == {"ai_outbound", "fallback"}

C16_OutboundAnsweredSetsUp ==
  [][\A l \in Legs, f \in OutboundFlows :
       /\ (last'.step = "answered" /\ last'.leg = l /\ last'.flow = f) =>
            /\ Count("createConference", l)' = Count("createConference", l) + 1
            /\ activeConferences' = activeConferences
       /\ last' = Step("createReturn", l, f, Null, TRUE) =>
            /\ l \in DOMAIN activeConferences'
            /\ activeConferences'[l].conferenceId = ConfNames[nextConf]
            /\ activeConferences'[l].callerCallControlId = l
            /\ \A k \in DOMAIN activeConferences :
                 k # l => /\ k \in DOMAIN activeConferences'
                          /\ activeConferences'[k] = activeConferences[k]
            /\ \E r \in BagToSet(requests') :
                 /\ requests' = requests (+) SetToBag({r})
                 /\ r.op = "dial"
                 /\ TokenType(r.token) = "ai_leg"
                 /\ Decoded(r.token).conferenceId = ConfNames[nextConf]
       /\ last' = Step("createReturn", l, f, Null, FALSE) =>
            /\ activeConferences' = activeConferences
            /\ requests' = requests]_vars

\* The conference of an outbound contact leg has just been created: the
\* conversation is stored under the leg and the dial for it has been placed.
C16_Witness ==
  /\ last.step = "createReturn" /\ last.flow \in OutboundFlows /\ last.ok
  /\ last.leg \in DOMAIN activeConferences
  /\ activeConferences[last.leg].isOutbound
  /\ \E r \in BagToSet(requests) :
       r.op = "dial" /\ r.conf = activeConferences[last.leg].conferenceId

(***************************************************************************)
(* Human takeover: a conversation set up for the inbound leg L1, and legs  *)
(* L2 and L3 answering with a conference_join token.                       *)
(***************************************************************************)
MaxTakeoverEvents == 4

\* Tokens of the takeover dial, with and without the id of the original call.
JoinTokens ==
  {<< <<"type", "conference_join">>, <<"conference_id", c>>,
      <<"original_call_id", "call1">> >> : c \in TokenConfs}
  \cup {<< <<"type", "conference_join">>, <<"conference_id", c>> >> : c \in TokenConfs}

InitTakeover == Start(MaxTakeoverEvents)

NextTakeover ==
  \/ Initiated({"L1"}, {"inbound"}, {AgentNumber}, {OtherNumber})
  \/ Answered({"L1"}, {NoClientState}, {OtherNumber})
  \/ Answered({"L2", "L3"}, JoinTokens, {AgentNumber})
  \/ Hangup({"L1", "L2"})
  \/ AnswerReturns \/ CreateReturns \/ DialReturns \/ JoinReturns
  \/ NotifyReturns \/ TranscriptTimers

SpecTakeover == InitTakeover /\ [][NextTakeover]_vars

\* The handler h of a conference_join call.answered resumes in this step
\* after its joinConference returned.
TakeoverJoinReturns(h) ==
  /\ h.pc = "awaitJoin" /\ h.flow = "conference_join"
  /\ last'.step = "joinReturn"
  /\ handlers' = handlers (-) SetToBag({h})

\* The conversations with the conference id of h are marked human-joined with
\* the leg of h recorded, and no other conversation changes.
MarkedJoined(h) ==
  /\ DOMAIN activeConferences' = DOMAIN activeConferences
  /\ \A k \in DOMAIN activeConferences :
       IF activeConferences[k].conferenceId = h.conf
       THEN /\ activeConferences'[k].userJoined
            /\ activeConferences'[k].userCallControlId = h.leg
       ELSE activeConferences'[k] = activeConferences[k]

UserJoinedSent(h) ==
  requests' = requests (+) SetToBag({
    Request("user-joined", h.leg, h.conf, Null, NoClientState)})

C18_OneCallEndedNotification ==
  [][/\ \A l \in Legs :
          (last'.step = "hangup" /\ last'.leg = l) =>
            requests' = requests (+) SetToBag({
              Request("call-ended", l, Null, Null, NoClientState)})
     /\ \A ok \in BOOLEAN :
          (last'.step = "notifyReturn" /\ last'.ok = ok) =>
            /\ requests' = requests
            /\ \A h \in BagToSet(handlers') : CopiesIn(h, handlers') <= CopiesIn(h, handlers)
            /\ UNCHANGED <<pendingCalls, pendingOutboundCalls, activeConferences,
                           callHistory, liveTranscripts>>]_vars

\* The call-ended notification for a leg that anchored a conversation has
\* just failed: it was the only one sent and the conversation is still gone.
C18_Witness ==
  /\ last.step = "notifyReturn" /\ ~last.ok
  /\ Count("call-ended", last.leg) = 1
  /\ Count("createConference", last.leg) = 1
  /\ nextConf > 1
  /\ last.leg \notin DOMAIN activeConferences

\* A leg that matches no table has hung up, and its notification was attempted.
C18_WitnessUnknownLeg ==
  /\ last.step = "hangup"
  /\ Count("call-ended", last.leg) = 1
  /\ Count("answer", last.leg) = 0 /\ Count("createConference", last.leg) = 0

(***************************************************************************)
(* handleTranscription: attribute the speaker, keep finalized text in the  *)
(* buffer of the conference, forward the entry.  The forwarding fetch is   *)
(* not awaited and its failure is only logged.                             *)
(***************************************************************************)
\* if (transcripts.length > 500) transcripts.shift()
MaxTranscriptEntries == 500

TranscriptEntry(speaker, text, isFinal, participant) ==
  [speaker |-> speaker, text |-> text, isFinal |-> isFinal,
   callControlId |-> participant]

\* A variant of Speaker that looks for the reporting leg in every conversation.
Speaker_AnyConversation(conferenceId, participant) ==
  IF \E k \in DOMAIN activeConferences :
       activeConferences[k].aiCallControlId = participant
  THEN "AI" ELSE "Contact"

\* The loop over activeConferences stops at the conversation of the conference.
Speaker(conferenceId, participant) ==
  IF FindByConferenceId(conferenceId) # {}
  THEN LET k == CHOOSE x \in FindByConferenceId(conferenceId) : TRUE
       IN  IF activeConferences[k].aiCallControlId = participant
           THEN "AI" ELSE "Contact"
  ELSE "Contact"

\* liveTranscripts.get(conferenceId), an empty array when there is none yet
BufferOf(m, conferenceId) ==
  IF MapHas(m, conferenceId) THEN m[conferenceId] ELSE <<>>

\* A variant of Push that never drops an entry.
Push_NoCap(transcripts, entry) == Append(transcripts, entry)

\* transcripts.push(entry); if (transcripts.length > 500) transcripts.shift()
Push(transcripts, entry) ==
  LET added == Append(transcripts, entry)
  IN  IF Len(added) > MaxTranscriptEntries THEN Tail(added) ELSE added

\* What the handler does with the event: nothing, store and forward, or
\* forward only.
TranscriptionKind(conferenceId, text, isFinal) ==
  IF conferenceId = Undefined \/ text \in {Undefined, ""} THEN "ignored"
  ELSE IF isFinal THEN "final" ELSE "interim"

handleTranscription(conferenceId, text, isFinal, participant) ==
  LET entry == TranscriptEntry(Speaker(conferenceId, participant), text, isFinal,
                               participant)
  IN  /\ Receivable
      /\ eventsLeft > 0
      /\ eventsLeft' = eventsLeft - 1
      /\ events_stored' = Recorded
      /\ IF TranscriptionKind(conferenceId, text, isFinal) = "ignored"
         THEN UNCHANGED <<liveTranscripts, requests>>
         ELSE /\ liveTranscripts' =
                   MapSet(liveTranscripts, conferenceId,
                          IF isFinal
                          THEN Push(BufferOf(liveTranscripts, conferenceId), entry)
                          ELSE BufferOf(liveTranscripts, conferenceId))
              /\ requests' = Notify(requests,
                   Request("transcript", participant, conferenceId, entry.speaker,
                           NoClientState))
      /\ UNCHANGED <<pendingCalls, pendingOutboundCalls, activeConferences, callHistory,
                     handlers, nextConf, now, hasApiKey, hungUp>>

Transcription(C, T, L) ==
  \E conferenceId \in C, text \in T, isFinal \in BOOLEAN, participant \in L :
    /\ handleTranscription(conferenceId, text, isFinal, participant)
    /\ last' = Step("transcription", participant,
                    TranscriptionKind(conferenceId, text, isFinal), conferenceId, TRUE)

(***************************************************************************)
(* Transcription of an established call.  The inbound call of L1 is in     *)
(* conference C1 and the AI leg L3 has joined it; the buffer of C1 holds   *)
(* no entry yet, or is one entry short of full, or is full.                *)
(***************************************************************************)
MaxTranscriptEvents == 3

\* A buffer of n earlier entries; the oldest one is recognisable.
Filled(n) ==
  [i \in 1..n |-> TranscriptEntry("Contact", IF i = 1 THEN "first" ELSE "old", TRUE, "L1")]

InitTranscript ==
  /\ pendingCalls = EmptyMap
  /\ pendingOutboundCalls = EmptyMap
  /\ activeConferences =
       MapSet(EmptyMap, "L1",
              MarkAIConnected(Conversation("C1", OtherNumber, "L1", AgentNumber, FALSE), "L3"))
  /\ callHistory = <<[HistoryEntry("L1", "inbound", "connected", "C1")
                        EXCEPT !.aiCallControlId = "L3"]>>
  /\ \E n \in {0, MaxTranscriptEntries - 1, MaxTranscriptEntries} :
       liveTranscripts = IF n = 0 THEN EmptyMap ELSE MapSet(EmptyMap, "C1", Filled(n))
  /\ handlers = EmptyBag
  /\ requests = SetToBag({Request("answer", "L1", Null, Null, NoClientState),
                          Request("createConference", "L1", Null, "call", NoClientState),
                          DialRequest(AgentNumber, "C1", OtherNumber),
                          Request("joinConference", "L3", "C1", Null, NoClientState)})
  /\ nextConf = 2
  /\ eventsLeft = MaxTranscriptEvents
  /\ events_stored = 3
  /\ now = 0
  /\ hasApiKey = TRUE
  /\ hungUp = {}
  /\ last = Step("joinReturn", "L3", "ai_leg", "C1", TRUE)

NextTranscript ==
  \/ Transcription({Undefined, "C1", "C0"}, {"", "hi"}, {"L1", "L3"})
  \/ Hangup({"L1", "L3"})
  \/ NotifyReturns \/ TranscriptTimers

SpecTranscript == InitTranscript /\ [][NextTranscript]_vars

(***************************************************************************)
(* C19.  For a conference.transcription event with a conference id and     *)
(* non-empty text, the stored and the forwarded entry have speaker AI      *)
(* exactly when a conversation with that conference id exists and its AI   *)
(* leg is the reporting leg; otherwise (no such conversation, AI slot      *)
(* empty, another leg) the speaker is Contact.                             *)
(***************************************************************************)
ExpectedSpeaker(conferenceId, participant) ==
  IF \E k \in DOMAIN activeConferences :
       /\ activeConferences[k].conferenceId = conferenceId
       /\ activeConferences[k].aiCallControlId = participant
  THEN "AI" ELSE "Contact"

C19_SpeakerAttribution ==
  [][\A c \in {"C1", "C0"}, l \in Legs :
       (/\ last'.step = "transcription" /\ last'.conf = c /\ last'.leg = l
        /\ last'.flow \in {"final", "interim"}) =>
         /\ requests' = requests (+) SetToBag({
              Request("transcript", l, c, ExpectedSpeaker(c, l), NoClientState)})
         /\ last'.flow = "final" =>
              LET b == BufferOf(liveTranscripts', c)
              IN  /\ Len(b) > 0
                  /\ b[Len(b)].speaker = ExpectedSpeaker(c, l)
                  /\ b[Len(b)].callControlId = l]_vars

\* The AI leg of the conversation has just reported finalized text: the entry
\* stored last and the entry forwarded both say AI.
C19_Witness ==
  /\ last.step = "transcription" /\ last.flow = "final"
  /\ \E k \in DOMAIN activeConferences :
       /\ activeConferences[k].conferenceId = last.conf
       /\ activeConferences[k].aiCallControlId = last.leg
  /\ LET b == BufferOf(liveTranscripts, last.conf)
     IN  Len(b) > 0 /\ b[Len(b)].speaker = "AI"
  /\ \E r \in BagToSet(requests) :
       r.op = "transcript" /\ r.leg = last.leg /\ r.conf = last.conf /\ r.name = "AI"

MaxRouteEvents == 3

HandledTypes ==
  {"call.initiated", "call.answered", "call.hangup", "conference.transcription"}

\* Event types the provider also sends, and a body without event_type.
OtherTypes == {"call.bridged", "conference.participant.joined", Undefined}

OtherEvent(event_type) ==
  /\ event_type \notin HandledTypes
  /\ Receivable
  /\ eventsLeft > 0
  /\ eventsLeft' = eventsLeft - 1
  /\ events_stored' = Recorded
  /\ UNCHANGED <<pendingCalls, pendingOutboundCalls, activeConferences, callHistory,
                 liveTranscripts, handlers, requests, nextConf, now, hasApiKey, hungUp>>

OtherEvents ==
  \E event_type \in OtherTypes :
    /\ OtherEvent(event_type)
    /\ last' = Step("other", Null, event_type, Null, TRUE)

InitRoute == Start(MaxRouteEvents)

NextRoute ==
  \/ Initiated({"L1", "L2"}, {"inbound", "outgoing"}, {AgentNumber, OtherNumber},
               {AgentNumber, OtherNumber})
  \/ Answered({"L1", "L2"}, {NoClientState}, {OtherNumber})
  \/ Hangup({"L1", "L2"})
  \/ Transcription({"C1"}, {"hi"}, {"L1"})
  \/ OtherEvents
  \/ AnswerReturns \/ CreateReturns \/ DialReturns
  \/ TranscriptionReturns \/ NotifyReturns \/ TranscriptTimers

SpecRoute == InitRoute /\ [][NextRoute]_vars

(***************************************************************************)
(* C21.  A webhook whose event type is not one of the handled types is     *)
(* accepted and recorded in the diagnostic event buffer only: it issues no *)
(* request, starts no handler, and leaves the Pending Call, tracked        *)
(* outbound, Active Conversation, transcript and call-history tables       *)
(* unchanged.                                                              *)
(***************************************************************************)
C21_OtherEventOnlyRecorded ==
  [][last'.step = "other" =>
       /\ events_stored' =
            IF events_stored < MAX_EVENTS THEN events_stored + 1 ELSE MAX_EVENTS
       /\ requests' = requests
       /\ handlers' = handlers
       /\ UNCHANGED <<pendingCalls, pendingOutboundCalls, activeConferences,
                      callHistory, liveTranscripts>>]_vars

\* An event of another type has just been received while a Pending Call or
\* a conversation exists: it is in the buffer with the earlier events.
C21_Witness ==
  /\ last.step = "other"
  /\ events_stored >= 2
  /\ pendingCalls # EmptyMap \/ activeConferences # EmptyMap

(***************************************************************************)
(* C22.  An outbound contact leg drives its side effects once: whatever    *)
(* call.initiated and call.answered events are delivered for a leg, with   *)
(* an ai_outbound token or without a token, duplicates included, at most   *)
(* one conference is created with the leg as anchor, and so at most one AI *)
(* dial is placed for it.                                                  *)
(***************************************************************************)
C22_OutboundSetUpOnce ==
  \A l \in Legs : Count("createConference", l) <= 1

(***************************************************************************)
(* C23.  A conference has at most one AI leg bridged into it: no           *)
(* joinConference is issued for an AI leg on a conference whose            *)
(* conversation already has another AI leg joined that has not hung up.    *)
(***************************************************************************)
\* Conversation k has an AI leg other than l joined, and that leg has not hung up.
OtherAIBridged(k, l) ==
  /\ activeConferences[k].aiConnected
  /\ activeConferences[k].aiCallControlId # l
  /\ activeConferences[k].aiCallControlId \notin hungUp

C23_OneAILegPerConference ==
  [][\A l \in Legs :
       (last'.step = "answered" /\ last'.flow = "ai_leg" /\ last'.leg = l) =>
         \/ Count("joinConference", l)' = Count("joinConference", l)
         \/ \A k \in DOMAIN activeConferences :
              activeConferences[k].conferenceId = last'.conf => ~OtherAIBridged(k, l)]_vars

(***************************************************************************)
(* C24.  No leg id is a key of more than one correlation table (Pending    *)
(* Call, tracked outbound attempt, Active Conversation) at the same time.  *)
(***************************************************************************)
C24_LegInOneTable ==
  \A l \in Legs :
    /\ ~(l \in DOMAIN pendingCalls /\ l \in DOMAIN pendingOutboundCalls)
    /\ ~(l \in DOMAIN pendingCalls /\ l \in DOMAIN activeConferences)
    /\ ~(l \in DOMAIN pendingOutboundCalls /\ l \in DOMAIN activeConferences)

(***************************************************************************)
(* POST /redial-ai: dial the AI agent into an existing conference again    *)
(* and, when the dial is placed, put the new AI leg in the AI slot of the  *)
(* conversation until it answers.                                          *)
(***************************************************************************)
redialAI(conference_id, agent_phone_number, caller_phone) ==
  /\ Receivable
  /\ eventsLeft > 0
  /\ eventsLeft' = eventsLeft - 1
  /\ IF conference_id = Undefined \/ agent_phone_number = Undefined
     THEN UNCHANGED <<requests, handlers>>
     ELSE /\ requests' = Send(requests,
               DialRequest(agent_phone_number, conference_id,
                           IF caller_phone = Undefined THEN "unknown" ELSE caller_phone))
          /\ handlers' = handlers (+) SetToBag({
               Handler("awaitRedial", "redial", Null, conference_id,
                       agent_phone_number, caller_phone)})
  /\ UNCHANGED <<pendingCalls, pendingOutboundCalls, activeConferences, callHistory,
                 liveTranscripts, nextConf, now, hasApiKey, events_stored, hungUp>>

\* A variant of ConferencesAfterRedial that drops the conversation when the dial failed.
ConferencesAfterRedial_DropOnFailure(h, success, aiLeg) ==
  IF FindByConferenceId(h.conf) = {} THEN activeConferences
  ELSE LET k == CHOOSE x \in FindByConferenceId(h.conf) : TRUE
       IN  IF success
           THEN [activeConferences EXCEPT ![k].aiCallControlId = aiLeg,
                                          ![k].aiConnected = FALSE]
           ELSE MapDelete(activeConferences, k)

\* conf.aiCallControlId = sipResult.callControlId; conf.aiConnected = false
ConferencesAfterRedial(h, success, aiLeg) ==
  IF success /\ FindByConferenceId(h.conf) # {}
  THEN LET k == CHOOSE x \in FindByConferenceId(h.conf) : TRUE
       IN  [activeConferences EXCEPT ![k].aiCallControlId = aiLeg,
                                     ![k].aiConnected = FALSE]
  ELSE activeConferences

\* After `await dialElevenLabsSIP(...)`; aiLeg is the leg id the provider
\* gave the new call.
RedialReturn(h, success, aiLeg) ==
  /\ h.pc = "awaitRedial"
  /\ handlers' = handlers (-) SetToBag({h})
  /\ activeConferences' = ConferencesAfterRedial(h, success, aiLeg)
  /\ UNCHANGED <<pendingCalls, pendingOutboundCalls, callHistory, liveTranscripts,
                 requests, nextConf, eventsLeft, events_stored, now, hasApiKey, hungUp>>

Redial(C, A, P) ==
  \E conference_id \in C, agent_phone_number \in A, caller_phone \in P :
    /\ redialAI(conference_id, agent_phone_number, caller_phone)
    /\ last' = Step("redial", Null, "redial", conference_id, TRUE)

RedialReturns(L) ==
  \E h \in BagToSet(handlers), ok \in Outcomes, aiLeg \in L :
    /\ RedialReturn(h, ok, aiLeg)
    /\ last' = Step("redialReturn", IF ok THEN aiLeg ELSE Null, h.flow, h.conf, ok)

(***************************************************************************)
(* An established conversation (L1 in conference C1, AI dialled) that      *)
(* receives further events for its legs, transcripts and redial requests.  *)
(***************************************************************************)
MaxRedialEvents == 3

InitRedial == Bridged /\ eventsLeft = MaxRedialEvents

NextRedial ==
  \/ Initiated({"L1"}, {"inbound"}, {AgentNumber}, {OtherNumber})
  \/ Answered({"L1"}, {NoClientState}, {OtherNumber})
  \/ Answered({"L3"}, AILegTokens, {AgentNumber})
  \/ Transcription({"C1"}, {"hi"}, {"L3"})
  \/ Redial({"C1", Undefined}, {AgentNumber}, {OtherNumber, Undefined})
  \/ Hangup({"L1", "L3"})
  \/ AnswerReturns \/ CreateReturns \/ DialReturns \/ JoinReturns
  \/ RedialReturns({"L3"}) \/ NotifyReturns \/ TranscriptTimers

SpecRedial == InitRedial /\ [][NextRedial]_vars

(***************************************************************************)
(* C25.  A key leaves the Active Conversation table only in the            *)
(* call.hangup handler of that key's leg: no call.initiated, call.answered,*)
(* conference.transcription or /redial-ai step and no returning remote     *)
(* call, failed or not, removes one.                                       *)
(***************************************************************************)
C25_OnlyHangupDeletesConversation ==
  [][\A k \in DOMAIN activeConferences :
       k \notin DOMAIN activeConferences' =>
         last' = Step("hangup", k, "hangup", Null, TRUE)]_vars

\* The anchor leg of the conversation has just hung up after a redial for its
\* conference was placed: the conversation is gone.
C25_Witness ==
  /\ last = Step("hangup", "L1", "hangup", Null, TRUE)
  /\ "L1" \notin DOMAIN activeConferences
  /\ \E r \in BagToSet(requests) :
       r.op = "dial" /\ r.conf = "C1" /\ CopiesIn(r, requests) >= 2

(***************************************************************************)
(* C26.  A call.hangup for a leg that still has a Pending Call removes the *)
(* entry, and a call.answered for the leg that is processed afterwards     *)
(* (no recognised token, the leg not tracked as an outbound attempt, no    *)
(* new call.initiated in between) creates no conference and starts nothing *)
(* that could place an AI dial.                                            *)
(***************************************************************************)
C26_HangupPurgesPending ==
  [][\A l \in Legs :
       /\ (last'.step = "hangup" /\ last'.leg = l) =>
            l \notin DOMAIN pendingCalls'
       /\ (/\ l \in hungUp
           /\ l \notin DOMAIN pendingOutboundCalls
           /\ last'.step = "answered" /\ last'.leg = l
           /\ NoRecognisedToken(last'.token)) =>
            /\ last'.flow = "no_match"
            /\ requests' = requests
            /\ handlers' = handlers
            /\ activeConferences' = activeConferences]_vars

\* The leg hung up while its Pending Call was there (its answer request had
\* not returned and no conference had been asked for), and the
\* call.answered that came next has just been dispatched as a no-op.
C26_Witness ==
  /\ last.step = "answered" /\ last.flow = "no_match"
  /\ Count("call-ended", last.leg) = 1
  /\ Count("answer", last.leg) = 1
  /\ Count("createConference", last.leg) = 0
  /\ \E h \in BagToSet(handlers) : h.pc = "awaitAnswer" /\ h.leg = last.leg

(***************************************************************************)
(* C27.  A call.hangup for the human-takeover leg of a conversation clears *)
(* the conversation's takeover slot (the human-joined flag and the human   *)
(* leg id) and keeps the conversation in the table.                        *)
(***************************************************************************)
C27_TakeoverHangupClearsSlot ==
  [][\A l \in Legs, k \in DOMAIN activeConferences :
       (/\ last'.step = "hangup" /\ last'.leg = l
        /\ k # l
        /\ activeConferences[k].userJoined
        /\ activeConferences[k].userCallControlId = l) =>
         /\ k \in DOMAIN activeConferences'
         /\ ~activeConferences'[k].userJoined
         /\ activeConferences'[k].userCallControlId = Null]_vars

(***************************************************************************)
(* C28.  Provider failures abandon the step, without retry and without     *)
(* rollback.  In the inbound flow a failed createConference leaves the     *)
(* Pending Call consumed, stores no conversation and places no AI dial; a  *)
(* failed AI dial leaves the stored conversation in place with an empty AI *)
(* slot and places no second dial.                                         *)
(***************************************************************************)
\* Handler h ends in this step: it is gone and no handler was started.
HandlerEnds(h) == handlers' = handlers (-) SetToBag({h})

C28_FailureAbandonsStep ==
  [][\A h \in BagToSet(handlers) :
       /\ (/\ h.pc = "awaitCreate" /\ h.flow = "inbound"
           /\ last' = Step("createReturn", h.leg, "inbound", h.conf, FALSE)) =>
            /\ HandlerEnds(h)
            /\ requests' = requests
            /\ UNCHANGED <<pendingCalls, activeConferences>>
       /\ (/\ h.pc = "awaitDial" /\ h.flow = "inbound"
           /\ last' = Step("dialReturn", h.leg, "inbound", h.conf, FALSE)) =>
            /\ HandlerEnds(h)
            /\ requests' = requests
            /\ UNCHANGED <<pendingCalls, activeConferences>>
            /\ \A k \in DOMAIN activeConferences' :
                 activeConferences'[k].conferenceId = h.conf =>
                   /\ activeConferences'[k].aiCallControlId = Null
                   /\ ~activeConferences'[k].aiConnected]_vars

\* The AI dial for the conference of an inbound leg has just failed: the
\* conversation is still stored, its AI slot empty, and one dial was placed.
C28_Witness ==
  /\ last.step = "dialReturn" /\ last.flow = "inbound" /\ ~last.ok
  /\ last.leg \in DOMAIN activeConferences
  /\ activeConferences[last.leg].conferenceId = last.conf
  /\ activeConferences[last.leg].aiCallControlId = Null
  /\ \A r \in BagToSet(requests) :
       (r.op = "dial" /\ r.conf = last.conf) => CopiesIn(r, requests) = 1

\* The createConference of an inbound leg has just failed: the Pending Call
\* is gone and no conversation is stored for the leg.
C28_WitnessCreate ==
  /\ last = Step("createReturn", last.leg, "inbound", Null, FALSE)
  /\ last.leg \notin DOMAIN pendingCalls
  /\ last.leg \notin DOMAIN activeConferences

(***************************************************************************)
(* The service without its call-control credential.                        *)
(***************************************************************************)
MaxNoKeyEvents == 3

InitNoKey == StartWith(MaxNoKeyEvents, FALSE)

NextNoKey ==
  \/ Initiated({"L1", "L2"}, {"inbound", "outgoing"}, {AgentNumber, OtherNumber},
               FromAddresses)
  \/ Answered({"L1", "L2"}, ClientStates, {AgentNumber})
  \/ Hangup({"L1", "L2"})
  \/ Redial({"C1", Undefined}, {AgentNumber}, {OtherNumber})
  \/ AnswerReturns \/ CreateReturns \/ JoinReturns \/ RedialReturns({"L3"})
  \/ NotifyReturns

SpecNoKey == InitNoKey /\ [][NextNoKey]_vars

(***************************************************************************)
(* C29.  When the call-control credential is absent, every remote-call     *)
(* wrapper returns a failure without issuing a request and without         *)
(* throwing (the handler goes on to its failure branch), so a matching     *)
(* inbound call.initiated ends with no Pending Call for its leg.           *)
(***************************************************************************)
CallControlOps ==
  {"answer", "createConference", "joinConference", "dial", "startTranscription"}

WrapperReturns ==
  {"answerReturn", "createReturn", "joinReturn", "dialReturn", "redialReturn",
   "transcriptionReturn"}

C29_NoKeyNoRequest ==
  /\ [](~hasApiKey =>
          /\ \A r \in BagToSet(requests) : r.op \notin CallControlOps
          /\ (\A h \in BagToSet(handlers) : h.pc # "awaitAnswer") =>
               pendingCalls = EmptyMap)
  /\ [][~hasApiKey =>
          /\ last'.step \in WrapperReturns => ~last'.ok
          /\ \A l \in Legs :
               last' = Step("answerReturn", l, "initiated", Null, FALSE) =>
                 l \notin DOMAIN pendingCalls']_vars

\* Without the key, the handler of an inbound call.initiated to an agent
\* number has just ended: the call is in the history, no Pending Call is
\* left and no request was sent.
C29_Witness ==
  /\ ~hasApiKey
  /\ last.step = "answerReturn" /\ ~last.ok
  /\ last.leg \notin DOMAIN pendingCalls
  /\ \E i \in DOMAIN callHistory : callHistory[i].callControlId = last.leg
  /\ Count("answer", last.leg) = 0

(***************************************************************************)
(* C30.  Re-delivering call.answered for a leg that is already bridged     *)
(* leaves the Active Conversation table as it was: for the caller leg,     *)
(* whose Pending Call was consumed, the event matches nothing and starts   *)
(* nothing; for the AI leg, already joined, the join that is issued again  *)
(* writes the values the conversation already has.                         *)
(***************************************************************************)
\* Leg l anchors a conversation and its Pending Call is gone.
CallerBridged(l) ==
  /\ l \in DOMAIN activeConferences
  /\ l \notin DOMAIN pendingCalls
  /\ l \notin DOMAIN pendingOutboundCalls

\* Leg l is the joined AI leg of the conversation of conference c.
AIBridged(l, c) ==
  \E k \in DOMAIN activeConferences :
    /\ activeConferences[k].conferenceId = c
    /\ activeConferences[k].aiCallControlId = l
    /\ activeConferences[k].aiConnected

C30_RedeliveredAnsweredKeepsTable ==
  [][\A l \in Legs :
       /\ (/\ CallerBridged(l)
           /\ last'.step = "answered" /\ last'.leg = l
           /\ last'.token = NoClientState) =>
            /\ activeConferences' = activeConferences
            /\ handlers' = handlers
       /\ (/\ AIBridged(l, last'.conf)
           /\ last'.leg = l /\ last'.flow = "ai_leg"
           /\ last'.step \in {"answered", "joinReturn"}) =>
            activeConferences' = activeConferences]_vars

\* The call.answered of the joined AI leg was delivered again and its second
\* join has just succeeded: the conversation still has the leg joined.
C30_Witness ==
  /\ last.step = "joinReturn" /\ last.flow = "ai_leg" /\ last.ok
  /\ Count("joinConference", last.leg) = 2
  /\ AIBridged(last.leg, last.conf)

(***************************************************************************)
(* C31.  The status of a call-history record only moves forward: once a    *)
(* hangup has set a record to completed, no step sets it back to           *)
(* in_progress or connected.  New records are put in front, so a record at *)
(* index i is found further back by the number of records added.           *)
(***************************************************************************)
C31_CompletedStaysCompleted ==
  [][LET added == Len(callHistory') - Len(callHistory)
     IN  \A i \in DOMAIN callHistory :
           callHistory[i].status = "completed" =>
             /\ i + added \in DOMAIN callHistory'
             /\ callHistory'[i + added].status = "completed"]_vars

(***************************************************************************)
(* C32.  Handlers of unrelated conversations do not interfere.  What the   *)
(* service holds for a leg b is its entries in the three tables, its       *)
(* call-history records, its suspended handlers and the requests issued    *)
(* for it or for one of its conferences.  A step taken for another leg a,  *)
(* whether it receives an event for a or resumes a handler of a, with      *)
(* success or with failure, leaves all of that as it was: the requests and *)
(* entries of b are those its own events and handlers produced.            *)
(***************************************************************************)
EntryOf(m, b) == {m[k] : k \in DOMAIN m \cap {b}}

RecordsOf(b) ==
  LET mine(e) == e.callControlId = b
  IN  SelectSeq(callHistory, mine)

ConferencesOf(b) == {RecordsOf(b)[i].conferenceId : i \in DOMAIN RecordsOf(b)} \ {Null}

HandlersOf(b) == {<<h, CopiesIn(h, handlers)>> : h \in {x \in BagToSet(handlers) : x.leg = b}}

RequestsOf(b) ==
  {<<r, CopiesIn(r, requests)>> :
     r \in {x \in BagToSet(requests) : x.leg = b \/ x.conf \in ConferencesOf(b)}}

ViewOf(b) ==
  <<EntryOf(pendingCalls, b), EntryOf(pendingOutboundCalls, b),
    EntryOf(activeConferences, b), RecordsOf(b), HandlersOf(b), RequestsOf(b)>>

C32_OtherLegUntouched ==
  [][\A b \in {"L1", "L2"} : last'.leg # b => ViewOf(b)' = ViewOf(b)]_vars

\* The handler of L1 is suspended in createConference, or has ended there in
\* failure, and the call of L2, received after it, is set up to the end.
C32_Witness ==
  /\ Count("createConference", "L1") = 1
  /\ ~MapHas(activeConferences, "L1")
  /\ MapHas(activeConferences, "L2")
  /\ \E r \in BagToSet(requests) :
       r.op = "dial" /\ r.conf = activeConferences["L2"].conferenceId
  /\ \A h \in BagToSet(handlers) : h.leg # "L2"

(***************************************************************************)
(* C33.  The outcome of a notification to the supervisory system never     *)
(* affects call control.  The only notification a handler waits for is     *)
(* call-ended; when it returns, delivered or failed, no request is issued  *)
(* and no table changes, so the runs that differ in that outcome continue  *)
(* from the same tables and requests.  The other notifications are sent    *)
(* and not waited for: no handler is suspended on them.                    *)
(***************************************************************************)
C33_NotificationOutcomeIgnored ==
  /\ [](\A h \in BagToSet(handlers) : h.pc = "awaitNotify" => h.flow = "hangup")
  /\ [][last'.step = "notifyReturn" =>
          /\ requests' = requests
          /\ UNCHANGED <<pendingCalls, pendingOutboundCalls, activeConferences,
                         callHistory, liveTranscripts>>
          /\ \E h \in BagToSet(handlers) :
               h.pc = "awaitNotify" /\ HandlerEnds(h)]_vars

\* The outbound-connected notification of a conversation was sent, and the
\* call-ended notification of another leg has just failed: the conversation
\* is still there.
C33_Witness ==
  /\ last.step = "notifyReturn" /\ ~last.ok
  /\ \E k \in DOMAIN activeConferences :
       /\ k # last.leg
       /\ Count("outbound-connected", k) = 1
       /\ Count("call-ended", last.leg) = 1

(***************************************************************************)
(* The events of the AI SIP leg the service placed.  The conversation of   *)
(* L1 is up and its AI dial was placed; the provider reports the leg of    *)
(* that dial, L3: initiated as an outgoing call from the agent number to   *)
(* the SIP address, answered with the token echoed or without it, hung up. *)
(***************************************************************************)
MaxCascadeEvents == 4

InitCascade == Bridged /\ eventsLeft = MaxCascadeEvents

NextCascade ==
  \/ Initiated({"L3"}, {"outgoing"}, {SipUri}, {AgentNumber})
  \/ Answered({"L3"}, {NoClientState} \cup DialTokens, {AgentNumber})
  \/ Hangup({"L3"})
  \/ JoinReturns \/ NotifyReturns

SpecCascade == InitCascade /\ [][NextCascade]_vars

(***************************************************************************)
(* C34.  No dial cascade.  call.initiated and call.answered of the AI SIP  *)
(* leg never create a Pending Call or a tracked outbound entry and never   *)
(* issue createConference or another AI dial, whether or not the token is  *)
(* echoed; so the external call keeps its one conference and one AI dial.  *)
(***************************************************************************)
Issued(op) ==
  LET P(r) == r.op = op
  IN  CountWhere(P)

C34_NoDialCascade ==
  /\ [](/\ pendingCalls = EmptyMap
        /\ pendingOutboundCalls = EmptyMap
        /\ Issued("createConference") = 1
        /\ Issued("dial") = 1
        /\ DOMAIN activeConferences = {"L1"})
  /\ [][last'.leg = "L3" /\ last'.step \in {"initiated", "answered"} =>
          /\ UNCHANGED <<pendingCalls, pendingOutboundCalls>>
          /\ \A r \in BagToSet(requests') :
               CopiesIn(r, requests') > CopiesIn(r, requests) => r.op = "joinConference"
          /\ last'.flow \in {"outgoing", "ai_leg", "no_match"}]_vars

\* Three events of the AI leg were received, and the call.answered that
\* carried the token has joined the leg to the conference of L1.
C34_Witness ==
  /\ eventsLeft = MaxCascadeEvents - 3
  /\ last.step = "joinReturn" /\ last.leg = "L3" /\ last.ok
  /\ Count("joinConference", "L3") = 1
  /\ activeConferences["L1"].aiCallControlId = "L3"

(***************************************************************************)
(* C35.  After call.hangup for a leg has been processed and every handler  *)
(* has finished, the leg is not a key of the tracked-outbound table: an    *)
(* attempt that hung up unanswered, or whose answer took the ai_outbound   *)
(* token path, does not remain to be matched by a later call.answered.     *)
(***************************************************************************)
C35_NoTrackedOutboundAfterHangup ==
  \A l \in hungUp : Quiescent => l \notin DOMAIN pendingOutboundCalls

(***************************************************************************)
(* C36.  No Active Conversation records as its connected AI leg a leg      *)
(* whose call.hangup has already been processed.                           *)
(***************************************************************************)
C36_ConnectedAILegNotHungUp ==
  \A k \in DOMAIN activeConferences :
    activeConferences[k].aiConnected => activeConferences[k].aiCallControlId \notin hungUp

(***************************************************************************)
(* C37.  The token path and the fallback path of the outbound-contact flow *)
(* are equivalent: once the AI dial of either has succeeded, the same      *)
(* call-control requests have been issued for the contact leg and its      *)
(* conference: createConference, the AI dial and startTranscription.       *)
(***************************************************************************)
C37_OutboundPathsEquivalent ==
  [][(last'.step = "dialReturn" /\ last'.ok /\ last'.flow \in OutboundFlows) =>
       \A op \in {"createConference", "dial", "startTranscription"} :
         \E r \in BagToSet(requests') :
           /\ r.op = op
           /\ IF op = "createConference" THEN r.leg = last'.leg ELSE r.conf = last'.conf]_vars

(***************************************************************************)
(* The earliest variant of the service (src/unnamed/part_000).  It has the *)
(* Pending Call table and a table of conversations keyed by the AI leg id, *)
(* stored only after the AI dial has returned; the dial carries no token.  *)
(* The other variables of the module are not used by this variant.         *)
(***************************************************************************)
MaxFirstEvents == 4

\* The leg ids the provider assigns to the AI dials, one for each conference.
AILegNames == <<"L2", "L3">>

\* A suspended handler of this variant; `response` is the provider's reply to
\* its dial request, on its way back: the id of the leg placed, Null when the
\* dial was refused.
HandlerV0(pc, leg, conf, from, to, response) ==
  [pc |-> pc, flow |-> "inbound", leg |-> leg, conf |-> conf, from |-> from,
   to |-> to, response |-> response]

ConversationV0(conferenceId, leg, from, to) ==
  [conferenceId |-> conferenceId, callerCallControlId |-> leg, from |-> from, to |-> to]

UnusedV0 == <<pendingOutboundCalls, callHistory, liveTranscripts, now, hasApiKey>>

handleCallInitiatedV0(l, direction, to, from) ==
  /\ Dispatch(l, "initiated")
  /\ IF direction \in {"inbound", "incoming"} /\ to \in AGENT_PHONE_NUMBERS
     THEN /\ pendingCalls' = MapSet(pendingCalls, l, [from |-> from, to |-> to, timestamp |-> now])
          /\ requests' = Send(requests, Request("answer", l, Null, Null, NoClientState))
          /\ handlers' = handlers (+) SetToBag({HandlerV0("awaitAnswer", l, Null, from, to, Null)})
     ELSE UNCHANGED <<pendingCalls, requests, handlers>>
  /\ UNCHANGED <<activeConferences, nextConf, UnusedV0>>

AnswerReturnV0(h, success) ==
  /\ h.pc = "awaitAnswer"
  /\ handlers' = handlers (-) SetToBag({h})
  /\ pendingCalls' = IF success THEN pendingCalls ELSE MapDelete(pendingCalls, h.leg)
  /\ UNCHANGED <<activeConferences, requests, nextConf, eventsLeft, events_stored,
                 hungUp, UnusedV0>>

\* The flow the answered handler of this variant takes for leg l.
AnsweredFlowV0(l) ==
  IF MapHas(pendingCalls, l) THEN "inbound"
  ELSE IF MapHas(activeConferences, l) THEN "ai_leg"
  ELSE "no_match"

handleCallAnsweredV0(l) ==
  /\ Dispatch(l, "answered")
  /\ CASE AnsweredFlowV0(l) = "inbound" ->
            /\ pendingCalls' = MapDelete(pendingCalls, l)
            /\ requests' = Send(requests, Request("createConference", l, Null, "call", NoClientState))
            /\ handlers' = handlers (+) SetToBag({
                 HandlerV0("awaitCreate", l, Null, pendingCalls[l].from, pendingCalls[l].to, Null)})
       [] AnsweredFlowV0(l) = "ai_leg" ->
            /\ requests' = Send(requests,
                 Request("joinConference", l, activeConferences[l].conferenceId, Null, NoClientState))
            /\ handlers' = handlers (+) SetToBag({
                 HandlerV0("awaitJoin", l, activeConferences[l].conferenceId, Null, Null, Null)})
            /\ UNCHANGED pendingCalls
       [] OTHER -> UNCHANGED <<pendingCalls, requests, handlers>>
  /\ UNCHANGED <<activeConferences, nextConf, UnusedV0>>

\* After `await createConference(...)`: dial the AI agent.  The provider
\* places the leg, or refuses, when it gets the request; its reply reaches
\* the handler later.
CreateReturnV0(h, success, placed) ==
  /\ h.pc = "awaitCreate"
  /\ IF success
     THEN /\ nextConf' = nextConf + 1
          /\ requests' = Send(requests, Request("dial", Null, ConfNames[nextConf], h.to, NoClientState))
          /\ handlers' = (handlers (-) SetToBag({h})) (+) SetToBag({
               HandlerV0("awaitDial", h.leg, ConfNames[nextConf], h.from, h.to,
                         IF placed THEN AILegNames[nextConf] ELSE Null)})
     ELSE /\ handlers' = handlers (-) SetToBag({h})
          /\ UNCHANGED <<nextConf, requests>>
  /\ UNCHANGED <<pendingCalls, activeConferences, eventsLeft, events_stored, hungUp, UnusedV0>>

\* After `await dialElevenLabsSIP(...)`: activeConferences.set(dialResult.callControlId, {...})
DialReturnV0(h) ==
  /\ h.pc = "awaitDial"
  /\ handlers' = handlers (-) SetToBag({h})
  /\ activeConferences' =
       IF h.response # Null
       THEN MapSet(activeConferences, h.response, ConversationV0(h.conf, h.leg, h.from, h.to))
       ELSE activeConferences
  /\ UNCHANGED <<pendingCalls, requests, nextConf, eventsLeft, events_stored, hungUp, UnusedV0>>

\* The join succeeded or failed: either way the handler only logs and ends.
JoinReturnV0(h, success) ==
  /\ h.pc = "awaitJoin"
  /\ handlers' = handlers (-) SetToBag({h})
  /\ UNCHANGED <<pendingCalls, activeConferences, requests, nextConf, eventsLeft,
                 events_stored, hungUp, UnusedV0>>

handleCallHangupV0(l) ==
  /\ Dispatch(l, "hangup")
  /\ pendingCalls' = MapDelete(pendingCalls, l)
  /\ activeConferences' = MapDelete(activeConferences, l)
  /\ UNCHANGED <<handlers, requests, nextConf, UnusedV0>>

\* The provider reports events of an AI leg only once it has placed the leg.
Placed(l) ==
  \/ \E h \in BagToSet(handlers) : h.pc = "awaitDial" /\ h.response = l
  \/ MapHas(activeConferences, l)

InitFirst == Start(MaxFirstEvents)

InitiatedV0 ==
  /\ handleCallInitiatedV0("L1", "inbound", AgentNumber, OtherNumber)
  /\ last' = Step("initiated", "L1", "inbound", Null, TRUE)

AnsweredV0 ==
  \E l \in {"L1", "L2", "L3"} :
    /\ l = "L1" \/ Placed(l)
    /\ handleCallAnsweredV0(l)
    /\ last' = Step("answered", l, AnsweredFlowV0(l), Null, TRUE)

HangupV0 ==
  \E l \in {"L1", "L2"} :
    /\ l = "L1" \/ Placed(l)
    /\ handleCallHangupV0(l)
    /\ last' = Step("hangup", l, "hangup", Null, TRUE)

AnswerReturnsV0 ==
  \E h \in BagToSet(handlers), ok \in BOOLEAN :
    AnswerReturnV0(h, ok) /\ last' = Step("answerReturn", h.leg, h.flow, Null, ok)

CreateReturnsV0 ==
  \E h \in BagToSet(handlers), ok \in BOOLEAN, placed \in BOOLEAN :
    CreateReturnV0(h, ok, placed) /\ last' = Step("createReturn", h.leg, h.flow, Null, ok)

DialReturnsV0 ==
  \E h \in BagToSet(handlers) :
    DialReturnV0(h) /\ last' = Step("dialReturn", h.leg, h.flow, h.conf, h.response # Null)

JoinReturnsV0 ==
  \E h \in BagToSet(handlers), ok \in BOOLEAN :
    JoinReturnV0(h, ok) /\ last' = Step("joinReturn", h.leg, "ai_leg", h.conf, ok)

NextFirst ==
  \/ InitiatedV0 \/ AnsweredV0 \/ HangupV0
  \/ AnswerReturnsV0 \/ CreateReturnsV0 \/ DialReturnsV0 \/ JoinReturnsV0

SpecFirst == InitFirst /\ [][NextFirst]_vars

(***************************************************************************)
(* C38.  In the earliest variant every successfully dialed AI leg is       *)
(* joined to the caller's conference when its call.answered is processed,  *)
(* whether that event comes before or after the dial request completes.    *)
(***************************************************************************)
C38_DialedAILegJoined ==
  [][\A l \in {"L2", "L3"} :
       (last'.step = "answered" /\ last'.leg = l /\ Placed(l)) =>
         Count("joinConference", l)' = Count("joinConference", l) + 1]_vars

(***************************************************************************)
(* C39.  In every Active Conversation the AI-connected flag is true only   *)
(* if the AI leg id is set.  Creation leaves both empty, a successful AI   *)
(* join sets both, the hangup of the AI leg clears both, and a successful  *)
(* redial sets the leg id with the flag false.                             *)
(***************************************************************************)
AISlot(conv) == <<conv.aiCallControlId, conv.aiConnected>>

C39_ConnectedOnlyWithAILeg ==
  /\ [](\A k \in DOMAIN activeConferences :
          activeConferences[k].aiConnected => activeConferences[k].aiCallControlId # Null)
  /\ [][/\ (last'.step = "createReturn" /\ last'.ok) =>
             AISlot(activeConferences'[last'.leg]) = <<Null, FALSE>>
        /\ (last'.step = "joinReturn" /\ last'.ok /\ last'.flow = "ai_leg") =>
             \A k \in DOMAIN activeConferences' :
               activeConferences'[k].conferenceId = last'.conf =>
                 AISlot(activeConferences'[k]) = <<last'.leg, TRUE>>
        /\ last'.step = "hangup" =>
             \A k \in DOMAIN activeConferences' :
               activeConferences[k].aiCallControlId = last'.leg =>
                 AISlot(activeConferences'[k]) = <<Null, FALSE>>
        /\ (last'.step = "redialReturn" /\ last'.ok) =>
             \A k \in DOMAIN activeConferences' :
               activeConferences'[k].conferenceId = last'.conf =>
                 AISlot(activeConferences'[k]) = <<last'.leg, FALSE>>]_vars

\* The AI leg answered and hung up, and a redial has just put a leg id in
\* the slot of the conversation with the flag false.
C39_Witness ==
  /\ last.step = "redialReturn" /\ last.ok
  /\ Count("joinConference", "L3") = 1
  /\ Count("call-ended", "L3") = 1
  /\ AISlot(activeConferences["L1"]) = <<"L3", FALSE>>

====
